---- MODULE Spec2Model ----
(***************************************************************************)
(* GitRepublic CLI: relay address normalisation, relay preference          *)
(* resolution (fetchRelayLists / enhanceRelayList), the publish command    *)
(* and the concurrent publisher (publishToRelays), the authenticated API    *)
(* request, error text and its sanitizer, event signing and verify, the    *)
(* entry points' argument parsing and command dispatch, push-all, the     *)
(* uninstall script, the commit hook, the git wrapper, and the event log   *)
(* under nostr/.                                                           *)
(***************************************************************************)
EXTENDS Integers, Sequences, FiniteSets, TLC

(***************************************************************************)
(* Bounds of the model.                                                    *)
(***************************************************************************)
\* longest NOSTR_RELAYS list read from the environment
MaxBase == 2
\* most records a preference-list query returns
MaxRecords == 2
\* most --relay options on a publish command line
MaxRelayArgs == 1
\* most tokens in the variable part of an error message
MaxTokens == 2
\* most slashes at the end of a request url
MaxSlashes == 2

(***************************************************************************)
(* Relay addresses.  An address string is modelled by its parts:           *)
(*   ws     surrounding whitespace                                         *)
(*   scheme "" (none), "ws", "wss", "http", "https", "file"                *)
(*   host   host name; "a b" is a host new URL() rejects                   *)
(*   port   "" or the digits after ':'                                     *)
(*   path   the non-empty path segments                                    *)
(*   dbl    path separators are repeated ("//x//y")                        *)
(*   trail  number of '/' that follow the last segment                     *)
(*   query  the query keys, in order (numbers, compared as the keys are)   *)
(*   hash   a '#fragment' ends the string                                  *)
(* The string is scheme://host:port/seg/seg + trail*'/' + ?query + #hash.  *)
(***************************************************************************)
Addr(ws, scheme, host, port, path, dbl, trail, query, hash) ==
    [ws |-> ws, scheme |-> scheme, host |-> host, port |-> port, path |-> path,
     dbl |-> dbl, trail |-> trail, query |-> query, hash |-> hash]

\* the value null of the source
Null == Addr(FALSE, "null", "", "", <<>>, FALSE, 0, <<>>, FALSE)

\* the empty string
EmptyString == Addr(FALSE, "", "", "", <<>>, FALSE, 0, <<>>, FALSE)

\* "wss://<h>"
Wss(h) == Addr(FALSE, "wss", h, "", <<>>, FALSE, 0, <<>>, FALSE)
\* "wss://<h>/"
WssSlash(h) == Addr(FALSE, "wss", h, "", <<>>, FALSE, 1, <<>>, FALSE)
\* "<h>" with no scheme
Bare(h) == Addr(FALSE, "", h, "", <<>>, FALSE, 0, <<>>, FALSE)
\* "https://<h>:443"
Https443(h) == Addr(FALSE, "https", h, "443", <<>>, FALSE, 0, <<>>, FALSE)
\* an address new URL() cannot parse
BadAddr == Addr(FALSE, "wss", "a b", "", <<>>, FALSE, 0, <<>>, FALSE)

\* the port a scheme implies
DefaultPort(scheme) ==
    CASE scheme \in {"ws", "http"} -> "80"
      [] scheme \in {"wss", "https"} -> "443"
      [] OTHER -> ""

RECURSIVE InsertSorted(_, _)
InsertSorted(x, s) ==
    IF s = <<>> THEN <<x>>
    ELSE IF x < Head(s) THEN <<x>> \o s
    ELSE <<Head(s)>> \o InsertSorted(x, Tail(s))

\* URLSearchParams.sort(): a stable sort of the keys
RECURSIVE SortKeys(_)
SortKeys(s) ==
    IF s = <<>> THEN <<>>
    ELSE InsertSorted(s[Len(s)], SortKeys(SubSeq(s, 1, Len(s) - 1)))

\* url.trim().replace(/\/+$/, ''): only slashes that end the string go.
\* With nothing after "scheme://" the slashes of "://" end the string too:
\* "file:///" becomes "file:", a string without '://' that reads as the
\* host "file" followed by an empty port.
StripTrailing(u) ==
    IF u.hash \/ u.query # <<>> THEN [u EXCEPT !.ws = FALSE]
    ELSE IF u.scheme # "" /\ u.host = "" /\ u.port = "" /\ u.path = <<>>
         THEN [u EXCEPT !.ws = FALSE, !.scheme = "", !.host = u.scheme, !.trail = 0]
    ELSE [u EXCEPT !.ws = FALSE, !.trail = 0]

\* 'wss://' is put in front of a string without '://'
AddProtocol(u) == IF u.scheme = "" THEN [u EXCEPT !.scheme = "wss"] ELSE u

\* new URL(url): throws on a bad host; only a file URL may have an empty
\* host, and it has no port; drops the scheme's default port
ParseOk(u) ==
    /\ u.host # "a b"
    /\ u.host = "" => u.scheme = "file"
    /\ u.scheme = "file" => u.port = ""
Parse(u) == [u EXCEPT !.port = IF u.port = DefaultPort(u.scheme) THEN "" ELSE u.port]

NormalizeProtocol(u) ==
    [u EXCEPT !.scheme = CASE u.scheme = "http" -> "ws"
                           [] u.scheme = "https" -> "wss"
                           [] OTHER -> u.scheme]

\* repeated separators collapse, one trailing separator goes; an empty
\* pathname of a ws/wss URL is serialised as "/"
NormalizePathname(u) ==
    [u EXCEPT !.dbl = FALSE,
              !.trail = IF u.path = <<>> THEN 1 ELSE 0]

RemoveDefaultPort(u) ==
    IF (u.port = "80" /\ u.scheme = "ws") \/ (u.port = "443" /\ u.scheme = "wss")
    THEN [u EXCEPT !.port = ""] ELSE u

RemoveHashSortParams(u) == [u EXCEPT !.hash = FALSE, !.query = SortKeys(u.query)]

normalizeRelayUrl(url) ==
    IF url = EmptyString \/ url = Null THEN Null
    ELSE LET s == AddProtocol(StripTrailing(url))
         IN IF ~ParseOk(s) THEN Null
            ELSE RemoveHashSortParams(RemoveDefaultPort(
                     NormalizePathname(NormalizeProtocol(Parse(s)))))

(***************************************************************************)
(* Sequence helpers.                                                       *)
(***************************************************************************)
Range(s) == {s[i] : i \in DOMAIN s}

RECURSIVE SelectNonNull(_)
SelectNonNull(s) ==
    IF s = <<>> THEN <<>>
    ELSE IF Head(s) = Null THEN SelectNonNull(Tail(s))
    ELSE <<Head(s)>> \o SelectNonNull(Tail(s))

\* list.map(url => normalizeRelayUrl(url)).filter(url => url !== null)
NormalizeAll(s) == SelectNonNull([i \in DOMAIN s |-> normalizeRelayUrl(s[i])])

SeqsUpTo(S, n) == UNION {[1..k -> S] : k \in 0..n}

(***************************************************************************)
(* Preference-list records (kinds 10002, 10432, 10006) and their tags.     *)
(***************************************************************************)
Tag(name, value) == [name |-> name, value |-> value]
Event(created_at, tags) == [created_at |-> created_at, tags |-> tags]

\* the three preference-list kinds queried by fetchRelayLists
KIND_OUTBOX == 10002
KIND_LOCAL == 10432
KIND_BLOCKED == 10006
Kinds == {KIND_OUTBOX, KIND_LOCAL, KIND_BLOCKED}

\* latest creation time of a record
MaxTime == 2

\* the tag lists records carry in the model
TagLists ==
    { <<>>,
      <<Tag("r", Bare("b"))>>,
      <<Tag("r", Https443("c"))>>,
      <<Tag("p", Wss("b")), Tag("r", BadAddr), Tag("r", WssSlash("a")), Tag("r", EmptyString)>> }

Events == {Event(t, tl) : t \in 1..MaxTime, tl \in TagLists}

\* what pool.querySync gives for one kind: it throws, or returns records
Failed == [ok |-> FALSE, events |-> <<>>]
Returned(events) == [ok |-> TRUE, events |-> events]
QueryResults == {Failed} \cup {Returned(s) : s \in SeqsUpTo(Events, MaxRecords)}

\* for (const tag of event.tags) if (tag[0] === 'r' && tag[1]) ...
RECURSIVE ExtractFromTags(_)
ExtractFromTags(tags) ==
    IF tags = <<>> THEN <<>>
    ELSE LET tag == Head(tags)
             normalized == normalizeRelayUrl(tag.value)
         IN IF tag.name = "r" /\ tag.value # EmptyString /\ normalized # Null
            THEN <<normalized>> \o ExtractFromTags(Tail(tags))
            ELSE ExtractFromTags(Tail(tags))

extractRelayUrls(event) == ExtractFromTags(event.tags)

\* a sort with the comparison turned round: oldest first
RECURSIVE InsertByCreatedAsc(_, _)
InsertByCreatedAsc(e, s) ==
    IF s = <<>> THEN <<e>>
    ELSE IF e.created_at <= Head(s).created_at THEN <<e>> \o s
    ELSE <<Head(s)>> \o InsertByCreatedAsc(e, Tail(s))

RECURSIVE SortByCreatedAsc(_)
SortByCreatedAsc(s) ==
    IF s = <<>> THEN <<>>
    ELSE InsertByCreatedAsc(Head(s), SortByCreatedAsc(Tail(s)))

\* events.sort((a, b) => b.created_at - a.created_at): stable, newest first
RECURSIVE InsertByCreatedDesc(_, _)
InsertByCreatedDesc(e, s) ==
    IF s = <<>> THEN <<e>>
    ELSE IF e.created_at >= Head(s).created_at THEN <<e>> \o s
    ELSE <<Head(s)>> \o InsertByCreatedDesc(e, Tail(s))

RECURSIVE SortByCreatedDesc(_)
SortByCreatedDesc(s) ==
    IF s = <<>> THEN <<>>
    ELSE InsertByCreatedDesc(Head(s), SortByCreatedDesc(Tail(s)))

\* one try block of fetchRelayLists: the addresses pushed for one kind
QueryKind(result) ==
    IF ~result.ok THEN <<>>
    ELSE IF Len(result.events) > 0
         THEN extractRelayUrls(SortByCreatedDesc(result.events)[1])
         ELSE <<>>

\* the three lists fetchRelayLists returns, q the per-kind query results
fetchRelayLists(q) ==
    [outboxes |-> QueryKind(q[KIND_OUTBOX]),
     localRelays |-> QueryKind(q[KIND_LOCAL]),
     blockedRelays |-> QueryKind(q[KIND_BLOCKED])]

\* the loop without its blocked test
RECURSIVE DedupeKeepingBlocked(_, _, _)
DedupeKeepingBlocked(allRelays, seen, normalizedBlocked) ==
    IF allRelays = <<>> THEN <<>>
    ELSE LET relay == Head(allRelays)
         IN IF relay # Null /\ relay \notin seen
            THEN <<relay>> \o DedupeKeepingBlocked(Tail(allRelays), seen \cup {relay}, normalizedBlocked)
            ELSE DedupeKeepingBlocked(Tail(allRelays), seen, normalizedBlocked)

\* the loop of enhanceRelayList: first occurrence kept, blocked dropped
RECURSIVE DedupeUnblocked(_, _, _)
DedupeUnblocked(allRelays, seen, normalizedBlocked) ==
    IF allRelays = <<>> THEN <<>>
    ELSE LET relay == Head(allRelays)
         IN IF relay # Null /\ relay \notin seen /\ relay \notin normalizedBlocked
            THEN <<relay>> \o DedupeUnblocked(Tail(allRelays), seen \cup {relay}, normalizedBlocked)
            ELSE DedupeUnblocked(Tail(allRelays), seen, normalizedBlocked)

\* enhanceRelayList after its fetch: lists is what fetchRelayLists returned
EnhanceWith(normalizedBase, lists) ==
    LET normalizedBlocked == Range(NormalizeAll(lists.blockedRelays))
        allRelays == normalizedBase \o NormalizeAll(lists.outboxes)
                                    \o NormalizeAll(lists.localRelays)
    IN DedupeUnblocked(allRelays, {}, normalizedBlocked)

enhanceRelayList(baseRelays, q) == EnhanceWith(NormalizeAll(baseRelays), fetchRelayLists(q))

(***************************************************************************)
(* State.                                                                  *)
(***************************************************************************)
VARIABLES
    \* --- enhanceRelayList / fetchRelayLists, step by step ---
    rpc,            \* where enhanceRelayList is
    baseRelays,     \* its baseRelays argument
    normalizedBase,
    outboxes, localRelays, blockedRelays,   \* the arrays fetchRelayLists fills
    fpool,          \* the SimplePool of fetchRelayLists: "none", "open", "closed"
    qstat,          \* per kind: "none" (not queried), "failed", "ok"
    newestTags,     \* per kind: the tags of the newest record the query returned
    olderSeen,      \* per kind: the query also returned an older record with other addresses
    enhanced,       \* what enhanceRelayList returns
    fthrew,         \* an error left fetchRelayLists
    \* --- the publish command, the API request and publishToRelays ---
    impl,           \* "modular" (commands/publish + relay/publisher) or "legacy" (gitrepublic.js)
    secret,         \* NOSTRGIT_SECRET_KEY: "absent", "malformed", "valid"
    command,        \* "api", or the publish subcommand
    pc,             \* where the command is
    relays,         \* the relay list of the publish command
    blockedSeen,    \* the blocked addresses enhanceRelayList saw (until the hand-over)
    handed,         \* the list passed to publishToRelays
    beh,            \* per position: how that relay behaves
    settled,        \* per position: the promise of pool.publish has settled
    success, failed,\* the arrays publishToRelays fills
    pool,           \* the SimplePool of publishToRelays: "none", "open", "closed"
    closeFailed,    \* pool.close threw
    net,            \* the kinds of network calls issued so far
    outcome         \* how the command ended: "none", "ok", "fatal", "help", "exit1"

resVars == <<rpc, baseRelays, normalizedBase, outboxes, localRelays, blockedRelays,
             fpool, qstat, newestTags, olderSeen, enhanced, fthrew>>

pubVars == <<impl, secret, command, pc, relays, blockedSeen, handed, beh, settled,
             success, failed, pool, closeFailed, net, outcome>>

\* --- error text: key decoding, the handlers that print an error ---
VARIABLES
    site,           \* the handler that surfaces the error
    keyInput,       \* the shape of the secret in the environment
    origin,         \* the variable part of the error text as first produced
    raised,         \* the message of the error that reaches the handler
    printed,        \* the message the handler prints
    epc             \* "idle", "start", "raised", "printed", "ok"

errVars == <<site, keyInput, origin, raised, printed, epc>>

\* --- signing, the authentication event, verify ---
VARIABLES
    authImpl,       \* which createNIP98Auth: "auth.js" or "git-wrapper.js"
    reqUrl,         \* the url argument of createNIP98Auth
    reqMethod,      \* the method argument of createNIP98Auth
    event,          \* the event: signed, then possibly changed by hand
    tamper,         \* what was changed after signing
    report,         \* what verify reports
    verifyJson,     \* verify was given --json
    verifyExit,     \* the exit status of verify, -1 while it has not ended
    apc             \* "idle", "start", "signed", "stored", "verified"

authVars == <<authImpl, reqUrl, reqMethod, event, tamper, report, verifyJson,
              verifyExit, apc>>

\* --- normalizeRelayUrl applied to its own result ---
VARIABLES
    nurl,           \* the address string handed to normalizeRelayUrl
    once,           \* normalizeRelayUrl(nurl)
    twice,          \* normalizeRelayUrl(once)
    npc             \* "idle", "start", "once", "dropped", "twice"

normVars == <<nurl, once, twice, npc>>

\* --- the entry points: argument parsing and command dispatch ---
VARIABLES
    entry,          \* the script started: "api-modular", "api-legacy", "wrapper"
    argv,           \* process.argv.slice(2)
    envKey,         \* NOSTRGIT_SECRET_KEY is set
    mpc,            \* "idle", "start", "delegated", "running", "apiExited", "exited"
    dispatched,     \* the handler the arguments were dispatched to
    handler,        \* its promise: "none", "pending", "rejected", "returned", "exited"
    shown,          \* the texts printed so far
    cutOff,         \* process.exit ran while the handler's promise was unsettled
    apiExit,        \* exit status of the API script, -1 while it runs
    exitCode        \* exit status of the command the user ran, -1 while it runs

mainVars == <<entry, argv, envKey, mpc, dispatched, handler, shown, cutOff,
              apiExit, exitCode>>

\* --- push-all ---
VARIABLES
    pushImpl,       \* "modular" (commands/pushAll.js) or "legacy" (gitrepublic.js)
    pushJson,       \* --json
    dryRun,         \* --dry-run
    remotes,        \* the output of git remote, one name per line
    results,        \* one record per remote pushed to
    successCount,
    failCount,
    summary,        \* what is printed at the end
    ppc,            \* "idle", "start", "pushing", "exited"
    pushExit        \* exit status of the process, -1 while it runs

pushVars == <<pushImpl, pushJson, dryRun, remotes, results, successCount,
              failCount, summary, ppc, pushExit>>

\* --- the uninstall script ---
VARIABLES
    unDryRun,       \* --dry-run or -d
    keepEnv,        \* --keep-env
    sys,            \* git's global configuration, the hook files, the shell file
    sys0,           \* the same before the script ran
    removed,        \* the items the script counts as removed
    upc             \* "idle", "start", "credentials", "globalHook", "localHook", "env", "done"

unVars == <<unDryRun, keepEnv, sys, sys0, removed, upc>>

\* --- the commit-msg hook ---
VARIABLES
    hookKey,        \* NOSTRGIT_SECRET_KEY: "unset" or the shape of its value
    hookEnv,        \* the other environment variables the hook reads
    msgFile,        \* the commit message file
    jsonl,          \* nostr/commit-signatures.jsonl
    hookNet,        \* the events handed to pool.publish
    signedEvent,    \* the event of this run
    signFailed,     \* this run reached the catch block of signCommitMessage
    atStart,        \* file, jsonl and hookNet when this run started
    runs,           \* how often the hook has been started
    hpc,            \* "idle", "start", "read", "signed", "stored", "written", "exited"
    hookExit        \* exit status of this run, -1 while it runs

hookVars == <<hookKey, hookEnv, msgFile, jsonl, hookNet, signedEvent, signFailed,
              atStart, runs, hpc, hookExit>>

\* --- the git wrapper: commands handed to git ---
VARIABLES
    gitCmd,         \* the kind of command: see GitCommands
    gitEnd,         \* how the git process ended
    gitResult,      \* result.code of runGitCommand
    authError,      \* git's output holds 401 or 403
    detailShown,    \* the wrapper printed its explanation of the failure
    wrapperExit,    \* exit status of the wrapper, -1 while it runs
    gpc             \* "idle", "start", "ran", "exited"

gitVars == <<gitCmd, gitEnd, gitResult, authError, detailShown, wrapperExit, gpc>>

VARIABLES
    \* --- a publish subcommand: the event log under nostr/ and the report ---
    storeImpl,      \* "modular" (publishEventCommon) or "legacy" (gitrepublic.js)
    storeSub,       \* the publish subcommand
    storeKind,      \* the kind of the signed event
    inRepo,         \* a .git directory is found above the working directory
    appendFails,    \* mkdir or writeFileSync throws
    storeJson,      \* --json was given
    appended,       \* the lines added to files of nostr/: [file, kind]
    storedLine,     \* the file of the printed 'Event stored in nostr/<file>', or NoLine
    stpc            \* where the subcommand is

storeVars == <<storeImpl, storeSub, storeKind, inRepo, appendFails, storeJson,
               appended, storedLine, stpc>>

cliVars == <<errVars, authVars, normVars, mainVars, pushVars, unVars, hookVars, gitVars, storeVars>>

notErrVars == <<resVars, pubVars, authVars, normVars, mainVars, pushVars, unVars, hookVars, gitVars, storeVars>>
notAuthVars == <<resVars, pubVars, errVars, normVars, mainVars, pushVars, unVars, hookVars, gitVars, storeVars>>
notNormVars == <<resVars, pubVars, errVars, authVars, mainVars, pushVars, unVars, hookVars, gitVars, storeVars>>
notMainVars == <<resVars, pubVars, errVars, authVars, normVars, pushVars, unVars, hookVars, gitVars, storeVars>>
notPushVars == <<resVars, pubVars, errVars, authVars, normVars, mainVars, unVars, hookVars, gitVars, storeVars>>
notUnVars == <<resVars, pubVars, errVars, authVars, normVars, mainVars, pushVars, hookVars, gitVars, storeVars>>
notHookVars == <<resVars, pubVars, errVars, authVars, normVars, mainVars, pushVars, unVars, gitVars, storeVars>>
notGitVars == <<resVars, pubVars, errVars, authVars, normVars, mainVars, pushVars, unVars, hookVars, storeVars>>
notStoreVars == <<resVars, pubVars, errVars, authVars, normVars, mainVars, pushVars, unVars, hookVars, gitVars>>

vars == <<resVars, pubVars, cliVars>>

\* no message
NoMessage == [text |-> "", body |-> <<>>]

\* no error is being handled
ErrIdle ==
    /\ site = "none"
    /\ keyInput = "none"
    /\ origin = <<>>
    /\ raised = NoMessage
    /\ printed = NoMessage
    /\ epc = "idle"

\* no event, no url
NoHash == [pubkey |-> "", created_at |-> 0, kind |-> 0, tags |-> <<>>, content |-> ""]
NoEvent == [kind |-> 0, pubkey |-> "", created_at |-> 0, tags |-> <<>>,
            content |-> "", id |-> NoHash, sig |-> [signer |-> "", over |-> NoHash]]
NoReport == [ran |-> FALSE, signatureValid |-> FALSE, idMatches |-> FALSE]

\* nothing is signed or verified
AuthIdle ==
    /\ authImpl = "none"
    /\ reqUrl = <<>>
    /\ reqMethod = <<>>
    /\ event = NoEvent
    /\ tamper = "none"
    /\ report = NoReport
    /\ verifyJson = FALSE
    /\ verifyExit = -1
    /\ apc = "idle"

\* no address is being normalised on its own
NormIdle ==
    /\ nurl = Null
    /\ once = Null
    /\ twice = Null
    /\ npc = "idle"

\* no entry point is running
MainIdle ==
    /\ entry = "none"
    /\ argv = <<>>
    /\ envKey = FALSE
    /\ mpc = "idle"
    /\ dispatched = "none"
    /\ handler = "none"
    /\ shown = <<>>
    /\ cutOff = FALSE
    /\ apiExit = -1
    /\ exitCode = -1

\* nothing printed at the end of push-all
NoSummary == [kind |-> "none", total |-> 0, success |-> 0, failed |-> 0]

\* push-all is not running
PushIdle ==
    /\ pushImpl = "none"
    /\ pushJson = FALSE
    /\ dryRun = FALSE
    /\ remotes = <<>>
    /\ results = <<>>
    /\ successCount = 0
    /\ failCount = 0
    /\ summary = NoSummary
    /\ ppc = "idle"
    /\ pushExit = -1

\* the parts of the system the uninstall script can touch:
\*   helpers    the kinds of credential helper lines in the global config
\*   hooksPath  core.hooksPath is set
\*   hookFile   <hooksPath>/commit-msg exists
\*   dirOther   the hooks directory holds other files
\*   dirExists  the hooks directory exists
\*   localHook  .git/hooks/commit-msg: "none", "gitrepublic", "other"
\*   shell      the kinds of lines in the shell configuration file
System(helpers, hooksPath, hookFile, dirOther, dirExists, localHook, shell) ==
    [helpers |-> helpers, hooksPath |-> hooksPath, hookFile |-> hookFile,
     dirOther |-> dirOther, dirExists |-> dirExists, localHook |-> localHook,
     shell |-> shell]
NoSystem == System({}, FALSE, FALSE, FALSE, FALSE, "none", {})

\* the uninstall script is not running
UnIdle ==
    /\ unDryRun = FALSE
    /\ keepEnv = FALSE
    /\ sys = NoSystem
    /\ sys0 = NoSystem
    /\ removed = 0
    /\ upc = "idle"

\* a commit message file: it exists or not, and its text in pieces
MessageFile(exists, pieces) == [exists |-> exists, pieces |-> pieces]
NoFile == MessageFile(FALSE, <<>>)
NoHookEnv == [cancel |-> "unset", signOnly |-> FALSE, gitRepublic |-> FALSE,
              includeFull |-> FALSE, publish |-> FALSE]
Snapshot(file, log, sent) == [file |-> file, log |-> log, net |-> sent]

\* the commit-msg hook is not running
HookIdle ==
    /\ hookKey = "unset"
    /\ hookEnv = NoHookEnv
    /\ msgFile = NoFile
    /\ jsonl = <<>>
    /\ hookNet = <<>>
    /\ signedEvent = NoEvent
    /\ signFailed = FALSE
    /\ atStart = Snapshot(NoFile, <<>>, <<>>)
    /\ runs = 0
    /\ hpc = "idle"
    /\ hookExit = -1

\* how a process ended: with a status, by a signal, or never started
Ended(kind, code) == [kind |-> kind, code |-> code]
NotEnded == Ended("none", 0)

\* the code null of the 'close' event
NullCode == -1

\* the git wrapper runs no git command
GitIdle ==
    /\ gitCmd = "none"
    /\ gitEnd = NotEnded
    /\ gitResult = NullCode
    /\ authError = FALSE
    /\ detailShown = FALSE
    /\ wrapperExit = -1
    /\ gpc = "idle"

\* a file of nostr/: a fixed name, or events-kind-<kind>.jsonl
FileName(stem, kind) == [stem |-> stem, kind |-> kind]
NoLine == FileName("none", 0)

\* no publish subcommand is storing an event
StoreIdle ==
    /\ storeImpl = "none"
    /\ storeSub = "none"
    /\ storeKind = 0
    /\ inRepo = FALSE
    /\ appendFails = FALSE
    /\ storeJson = FALSE
    /\ appended = {}
    /\ storedLine = NoLine
    /\ stpc = "idle"

\* nothing but relay resolution and the publish command is running
CliIdle == ErrIdle /\ AuthIdle /\ NormIdle /\ MainIdle /\ PushIdle /\ UnIdle /\ HookIdle /\ GitIdle /\ StoreIdle

\* the NOSTR_RELAYS entries of the model
BaseAddrs == {Wss("a"), WssSlash("a"), Bare("b")}
BaseLists == SeqsUpTo(BaseAddrs, MaxBase)

\* the newest record of a non-empty result: highest created_at, first received
NewestOf(events) ==
    events[CHOOSE i \in DOMAIN events :
              \A j \in DOMAIN events :
                  \/ events[i].created_at > events[j].created_at
                  \/ events[i].created_at = events[j].created_at /\ i <= j]

\* the publish command is not running
PubIdle ==
    /\ impl = "modular"
    /\ secret = "valid"
    /\ command = "none"
    /\ pc = "idle"
    /\ relays = <<>>
    /\ blockedSeen = {}
    /\ handed = <<>>
    /\ beh = <<>>
    /\ settled = <<>>
    /\ success = <<>>
    /\ failed = <<>>
    /\ pool = "none"
    /\ closeFailed = FALSE
    /\ net = {}
    /\ outcome = "none"

\* enhanceRelayList is not running on its own
ResIdle ==
    /\ rpc = "idle"
    /\ baseRelays = <<>>
    /\ normalizedBase = <<>>
    /\ outboxes = <<>>
    /\ localRelays = <<>>
    /\ blockedRelays = <<>>
    /\ fpool = "none"
    /\ qstat = [k \in Kinds |-> "none"]
    /\ newestTags = [k \in Kinds |-> <<>>]
    /\ olderSeen = [k \in Kinds |-> FALSE]
    /\ enhanced = <<>>
    /\ fthrew = FALSE

InitResolve ==
    /\ rpc = "start"
    /\ baseRelays \in BaseLists
    /\ normalizedBase = <<>>
    /\ outboxes = <<>>
    /\ localRelays = <<>>
    /\ blockedRelays = <<>>
    /\ fpool = "none"
    /\ qstat = [k \in Kinds |-> "none"]
    /\ newestTags = [k \in Kinds |-> <<>>]
    /\ olderSeen = [k \in Kinds |-> FALSE]
    /\ enhanced = <<>>
    /\ fthrew = FALSE
    /\ PubIdle
    /\ CliIdle

\* a close without its try block
CloseEscapesUncaught(closeThrows) == closeThrows

\* try { await pool.close(relays) } catch (closeError) {}: whether the error
\* of a failing close leaves the function
CloseEscapes(closeThrows) == FALSE

\* enhanceRelayList up to the first await of fetchRelayLists
EnhanceStart ==
    /\ rpc = "start"
    /\ normalizedBase' = NormalizeAll(baseRelays)
    /\ fpool' = "open"
    /\ rpc' = "q10002"
    /\ UNCHANGED <<baseRelays, outboxes, localRelays, blockedRelays, qstat,
                   newestTags, olderSeen, enhanced, fthrew>>
    /\ UNCHANGED pubVars
    /\ UNCHANGED cliVars

\* one try block around the three queries: a failure skips the rest
AfterQueryOneTry(at, result) ==
    IF ~result.ok THEN "closing"
    ELSE CASE at = "q10002" -> "q10432"
           [] at = "q10432" -> "q10006"
           [] at = "q10006" -> "closing"

\* where fetchRelayLists goes after the try block of one kind: its catch
\* swallows the error, so the next query follows whatever the result
AfterQuery(at, result) ==
    CASE at = "q10002" -> "q10432"
      [] at = "q10432" -> "q10006"
      [] at = "q10006" -> "closing"

\* a record of the result is older than its newest one and carries other
\* addresses in its r tags
OlderDiffers(events) ==
    \E j \in DOMAIN events :
        /\ events[j].created_at < NewestOf(events).created_at
        /\ ExtractFromTags(events[j].tags) # ExtractFromTags(NewestOf(events).tags)

QueryStat(kind, result) ==
    /\ qstat' = [qstat EXCEPT ![kind] = IF result.ok THEN "ok" ELSE "failed"]
    /\ olderSeen' = [olderSeen EXCEPT ![kind] = result.ok /\ OlderDiffers(result.events)]
    /\ newestTags' = [newestTags EXCEPT ![kind] =
                         IF result.ok /\ result.events # <<>>
                         THEN NewestOf(result.events).tags ELSE <<>>]

\* try { await pool.querySync(relays, [{kinds: [10002], ...}]) ... } catch {}
QueryOutboxes ==
    /\ rpc = "q10002"
    /\ \E result \in QueryResults :
          /\ outboxes' = outboxes \o QueryKind(result)
          /\ QueryStat(KIND_OUTBOX, result)
          /\ rpc' = AfterQuery(rpc, result)
    /\ UNCHANGED <<baseRelays, normalizedBase, localRelays, blockedRelays, fpool,
                   enhanced, fthrew>>
    /\ UNCHANGED pubVars
    /\ UNCHANGED cliVars

\* try { await pool.querySync(relays, [{kinds: [10432], ...}]) ... } catch {}
QueryLocalRelays ==
    /\ rpc = "q10432"
    /\ \E result \in QueryResults :
          /\ localRelays' = localRelays \o QueryKind(result)
          /\ QueryStat(KIND_LOCAL, result)
          /\ rpc' = AfterQuery(rpc, result)
    /\ UNCHANGED <<baseRelays, normalizedBase, outboxes, blockedRelays, fpool,
                   enhanced, fthrew>>
    /\ UNCHANGED pubVars
    /\ UNCHANGED cliVars

\* try { await pool.querySync(relays, [{kinds: [10006], ...}]) ... } catch {}
QueryBlockedRelays ==
    /\ rpc = "q10006"
    /\ \E result \in QueryResults :
          /\ blockedRelays' = blockedRelays \o QueryKind(result)
          /\ QueryStat(KIND_BLOCKED, result)
          /\ rpc' = AfterQuery(rpc, result)
    /\ UNCHANGED <<baseRelays, normalizedBase, outboxes, localRelays, fpool,
                   enhanced, fthrew>>
    /\ UNCHANGED pubVars
    /\ UNCHANGED cliVars

\* finally { try { await pool.close(relays) } catch {} }; return
FetchClose ==
    /\ rpc = "closing"
    /\ \E closeThrows \in BOOLEAN :
          /\ fpool' = "closed"
          /\ fthrew' = CloseEscapes(closeThrows)
    /\ rpc' = "fetched"
    /\ UNCHANGED <<baseRelays, normalizedBase, outboxes, localRelays, blockedRelays,
                   qstat, newestTags, olderSeen, enhanced>>
    /\ UNCHANGED pubVars
    /\ UNCHANGED cliVars

\* enhanceRelayList after the await: combine, deduplicate, drop blocked
EnhanceFinish ==
    /\ rpc = "fetched"
    /\ enhanced' = EnhanceWith(normalizedBase,
                       [outboxes |-> outboxes, localRelays |-> localRelays,
                        blockedRelays |-> blockedRelays])
    /\ rpc' = "done"
    /\ UNCHANGED <<baseRelays, normalizedBase, outboxes, localRelays, blockedRelays,
                   fpool, qstat, newestTags, olderSeen, fthrew>>
    /\ UNCHANGED pubVars
    /\ UNCHANGED cliVars

NextResolve ==
    \/ EnhanceStart
    \/ QueryOutboxes
    \/ QueryLocalRelays
    \/ QueryBlockedRelays
    \/ FetchClose
    \/ EnhanceFinish

SpecResolve == InitResolve /\ [][NextResolve]_vars

(***************************************************************************)
(* Properties of enhanceRelayList and fetchRelayLists.                     *)
(***************************************************************************)
\* the position of the first occurrence of x in s
FirstIndex(s, x) == CHOOSE i \in DOMAIN s : s[i] = x /\ \A j \in 1..(i - 1) : s[j] # x

\* base, then write targets, then local-only targets, each in canonical form
CombinedTargets ==
    NormalizeAll(baseRelays) \o NormalizeAll(outboxes) \o NormalizeAll(localRelays)

ListOf(kind) ==
    CASE kind = KIND_OUTBOX -> outboxes
      [] kind = KIND_LOCAL -> localRelays
      [] kind = KIND_BLOCKED -> blockedRelays

\* C10: in fetchRelayLists a failed query for one kind makes only that list
\* empty; each other list holds what its own query returned, and no error
\* leaves fetchRelayLists.
C10_ListsDegradeIndependently ==
    rpc \in {"fetched", "done"} =>
        /\ ~fthrew
        /\ \A k \in Kinds :
              /\ qstat[k] # "none"
              /\ ListOf(k) = IF qstat[k] = "failed" THEN <<>>
                             ELSE ExtractFromTags(newestTags[k])

C10_Witness ==
    /\ rpc = "fetched"
    /\ qstat[KIND_OUTBOX] = "failed"
    /\ qstat[KIND_LOCAL] = "ok"
    /\ qstat[KIND_BLOCKED] = "ok"
    /\ outboxes = <<>>
    /\ localRelays # <<>>
    /\ blockedRelays # <<>>
    /\ fpool = "closed"

\* C26: the addresses of a kind are those of the r tags of the record with
\* the highest created_at among the records its query returned; when the
\* query also returned an older record with other addresses, nothing of that
\* record is in the list.
C26_OnlyNewestRecord ==
    \A k \in Kinds :
        qstat[k] = "ok" => ListOf(k) = ExtractFromTags(newestTags[k])

C26_Witness ==
    /\ rpc = "fetched"
    /\ olderSeen[KIND_OUTBOX]
    /\ outboxes = ExtractFromTags(newestTags[KIND_OUTBOX])
    /\ outboxes # <<>>

\* fetchRelayLists is suspended at the await of the querySync of this kind:
\* the query has been issued and has not settled
QueryInFlight(kind) ==
    CASE kind = KIND_OUTBOX -> rpc = "q10002"
      [] kind = KIND_LOCAL -> rpc = "q10432"
      [] kind = KIND_BLOCKED -> rpc = "q10006"

\* the querySync of this kind has been called
QueryStarted(kind) == QueryInFlight(kind) \/ qstat[kind] # "none"

\* C24: the three queries of fetchRelayLists run in parallel: while the query
\* of one kind is in flight, the queries of the other kinds have been started
\* too, none waits for another to settle.
C24_QueriesRunInParallel ==
    \A k \in Kinds :
        QueryInFlight(k) => \A other \in Kinds : QueryStarted(other)

(***************************************************************************)
(* Error text and its sanitizer.                                           *)
(***************************************************************************)
\* The variable part of a message is a sequence of tokens separated by
\* blanks.  A token is a word (label "") or a fragment label + value:
\*   words   "word", "private" (a word holding 'private'), "opaque" (a secret
\*           of no recognisable shape), "hex64" (64 hex digits), "nsec1" (an
\*           nsec-encoded key)
\*   labels  "key=", "secret=", "private_key=", "secret_key=",
\*           "NOSTRGIT_SECRET_KEY=", "NSEC="
Token(label, value) == [label |-> label, value |-> value]
Word(value) == Token("", value)

SecretValues == {"opaque", "hex64", "nsec1"}
Labels == {"key=", "secret=", "private_key=", "secret_key=", "NOSTRGIT_SECRET_KEY=", "NSEC="}
Tokens ==
    {Word(v) : v \in {"word", "private"} \cup SecretValues}
        \cup {Token(l, v) : l \in Labels, v \in SecretValues}

\* labels the pattern key[=:] ends in
KeyLabels == {"key=", "private_key=", "secret_key=", "NOSTRGIT_SECRET_KEY="}

\* does the token hold the text 'private' / 'secret' (any case)
HoldsPrivate(t) == t.value = "private" \/ t.label = "private_key="
HoldsSecret(t) == t.label \in {"secret=", "secret_key=", "NOSTRGIT_SECRET_KEY="}

\* .replace(/nsec[0-9a-z]+/gi, '[nsec]')
ReplaceNsec(m) ==
    [i \in DOMAIN m |-> IF m[i].value = "nsec1" THEN [m[i] EXCEPT !.value = "[nsec]"] ELSE m[i]]

\* .replace(/[0-9a-f]{64}/gi, '[hex-key]')
ReplaceHex(m) ==
    [i \in DOMAIN m |-> IF m[i].value = "hex64" THEN [m[i] EXCEPT !.value = "[hex-key]"] ELSE m[i]]

\* .replace(/<start>.*key[=:]\s*[^\s]+/gi, out): from the leftmost start to
\* the value after the last key[=:] that follows it ('.*' is greedy)
ReplaceSpan(m, start, out) ==
    LET starts == {i \in DOMAIN m : IF start = "private" THEN HoldsPrivate(m[i])
                                                           ELSE HoldsSecret(m[i])}
        ends(i) == {j \in DOMAIN m : j >= i /\ m[j].label \in KeyLabels}
        matching == {i \in starts : ends(i) # {}}
    IN IF matching = {} THEN m
       ELSE LET i == CHOOSE x \in matching : \A y \in matching : x <= y
                j == CHOOSE x \in ends(i) : \A y \in ends(i) : x >= y
            IN SubSeq(m, 1, i - 1) \o <<Word(out)>> \o SubSeq(m, j + 1, Len(m))

\* .replace(/<NAME>[=:]\s*[^\s]+/gi, '<NAME>=[redacted]')
ReplaceNamed(m, label) ==
    [i \in DOMAIN m |-> IF m[i].label = label THEN [m[i] EXCEPT !.value = "[redacted]"] ELSE m[i]]

\* the chain of replacements of sanitizeErrorMessage, in its order
Redact(m) ==
    ReplaceNamed(
        ReplaceNamed(
            ReplaceSpan(
                ReplaceSpan(ReplaceHex(ReplaceNsec(m)), "private", "[private-key]"),
                "secret", "[secret-key]"),
            "NOSTRGIT_SECRET_KEY="),
        "NSEC=")

\* a message: its fixed wording and its variable part
Message(text, body) == [text |-> text, body |-> body]

\* a relay's or library's message, holding 64 hex digits or not
Msg(text, leak) == Message(text, IF leak THEN <<Word("hex64")>> ELSE <<>>)

sanitizeErrorMessage(message) == [message EXCEPT !.body = Redact(message.body)]

(***************************************************************************)
(* Key decoding and the handlers that print an error.                      *)
(***************************************************************************)
\* the shapes of NOSTRGIT_SECRET_KEY: unset, 64 hex digits, a well-formed
\* nsec, a string starting with nsec that does not decode, a well-formed
\* bech32 string of another type, any other string
KeyInputs == {"empty", "hex64", "nsec-valid", "nsec-bad", "npub", "garbage"}

\* how the supplied secret looks inside a text
ShapeOf(key) == IF key \in {"nsec-valid", "nsec-bad"} THEN "nsec1" ELSE "opaque"

\* nip19.decode(key): NoMessage when it returns, else the message it throws;
\* the text of the library may quote its input (echo)
LibraryDecode(key, echo) ==
    IF key \in {"nsec-valid", "npub"} THEN NoMessage
    ELSE Message("bech32 decode error", IF echo THEN <<Word(ShapeOf(key))>> ELSE <<>>)

\* does the message hold the key, error.message.includes(key)
MessageIncludesKey(message, key) ==
    \E i \in DOMAIN message.body : message.body[i].value = ShapeOf(key)

\* getPrivateKeyBytes(key): NoMessage when it returns, else what it throws
getPrivateKeyBytes(key, echo) ==
    IF key = "empty" THEN Message("Invalid key: key must be a string", <<>>)
    ELSE IF key \in {"nsec-valid", "nsec-bad"}
         THEN LET error == LibraryDecode(key, echo)
              IN IF error = NoMessage THEN NoMessage
                 ELSE IF MessageIncludesKey(error, key)
                      THEN Message("Invalid key format. Use nsec or hex.", <<>>)
                      ELSE error
    ELSE IF key = "hex64" THEN NoMessage
    ELSE Message("Invalid key format. Use nsec or hex.", <<>>)

\* decodeNostrKey(key) of the commit hook: NoMessage when it returns
decodeNostrKey(key, echo) ==
    IF key = "hex64" THEN NoMessage
    ELSE LET error == LibraryDecode(key, echo)
         IN IF error # NoMessage THEN Message("Invalid key format", error.body)
            ELSE IF key = "npub" THEN Message("Invalid key format", <<>>)
            ELSE NoMessage

ErrSites == {"main-modular", "main-legacy", "commit-hook"}
MessageBodies == SeqsUpTo(Tokens, MaxTokens)

InitErrors ==
    /\ ResIdle
    /\ PubIdle
    /\ AuthIdle
    /\ NormIdle
    /\ MainIdle
    /\ PushIdle
    /\ UnIdle
    /\ HookIdle
    /\ GitIdle
    /\ StoreIdle
    /\ site \in ErrSites
    /\ keyInput \in KeyInputs
    /\ origin = <<>>
    /\ raised = NoMessage
    /\ printed = NoMessage
    /\ epc = "start"

\* a command reads the key: getPrivateKeyFromEnv, getPrivateKeyBytes
CommandDecodeKey ==
    /\ epc = "start"
    /\ site \in {"main-modular", "main-legacy"}
    /\ \E echo \in BOOLEAN :
          LET error == IF keyInput = "empty"
                       THEN Message("NOSTRGIT_SECRET_KEY environment variable is not set", <<>>)
                       ELSE getPrivateKeyBytes(keyInput, echo)
          IN /\ raised' = error
             /\ origin' = error.body
             /\ epc' = IF error = NoMessage THEN "keyed" ELSE "keyerror"
    /\ UNCHANGED <<site, keyInput, printed>>
    /\ UNCHANGED notErrVars

\* signCommitMessage: no key, no signature; else decodeNostrKey(secretKey)
HookDecodeKey ==
    /\ epc = "start"
    /\ site = "commit-hook"
    /\ IF keyInput = "empty"
       THEN /\ epc' = "ok"
            /\ UNCHANGED <<raised, origin>>
       ELSE \E echo \in BOOLEAN :
               LET error == decodeNostrKey(keyInput, echo)
               IN /\ raised' = error
                  /\ origin' = error.body
                  /\ epc' = IF error = NoMessage THEN "keyed" ELSE "keyerror"
    /\ UNCHANGED <<site, keyInput, printed>>
    /\ UNCHANGED notErrVars

\* anything else the command or hook runs throws: a file, git, the network
HandlerThrows ==
    /\ epc = "keyed"
    /\ \E body \in MessageBodies :
          /\ origin' = body
          /\ raised' = Message("error", body)
    /\ epc' = "raised"
    /\ UNCHANGED <<site, keyInput, printed>>
    /\ UNCHANGED notErrVars

\* apiRequest: the response is not ok, its text goes into the error
ApiRequestFails ==
    /\ epc = "keyed"
    /\ site \in {"main-modular", "main-legacy"}
    /\ \E data \in MessageBodies :
          /\ origin' = data
          /\ raised' = Message("API request failed",
                               sanitizeErrorMessage(Message("", data)).body)
    /\ epc' = "raised"
    /\ UNCHANGED <<site, keyInput, printed>>
    /\ UNCHANGED notErrVars

\* commandHandler(...).catch of the modular entry point
MainCatch ==
    /\ epc \in {"raised", "keyerror"}
    /\ site = "main-modular"
    /\ printed' = sanitizeErrorMessage(raised)
    /\ epc' = "printed"
    /\ UNCHANGED <<site, keyInput, origin, raised>>
    /\ UNCHANGED notErrVars

\* commandHandler(...).catch of gitrepublic.js: console.error('Error:', error.message)
LegacyMainCatch ==
    /\ epc \in {"raised", "keyerror"}
    /\ site = "main-legacy"
    /\ printed' = raised
    /\ epc' = "printed"
    /\ UNCHANGED <<site, keyInput, origin, raised>>
    /\ UNCHANGED notErrVars

\* the catch of signCommitMessage: console.error('Failed to sign commit:', error.message)
HookCatch ==
    /\ epc \in {"raised", "keyerror"}
    /\ site = "commit-hook"
    /\ printed' = raised
    /\ epc' = "printed"
    /\ UNCHANGED <<site, keyInput, origin, raised>>
    /\ UNCHANGED notErrVars

NextErrors ==
    \/ CommandDecodeKey
    \/ HookDecodeKey
    \/ HandlerThrows
    \/ ApiRequestFails
    \/ MainCatch
    \/ LegacyMainCatch
    \/ HookCatch

SpecErrors == InitErrors /\ [][NextErrors]_vars

\* the text holds a secret: 64 hex digits, an nsec, or any other secret value
HoldsSecretValue(body) == \E i \in DOMAIN body : body[i].value \in SecretValues

\* C11: every error text the CLI prints has been passed through
\* sanitizeErrorMessage, whichever component raised the error.
C11_PrintedIsSanitized ==
    epc = "printed" => printed.body = Redact(origin)

\* C12: no error raised while decoding the private key holds the supplied
\* secret, a 64-hex-digit sequence or an nsec-encoded key.
C12_KeyErrorHoldsNoSecret ==
    epc = "keyerror" => ~HoldsSecretValue(raised.body)

\* C13: the output of sanitizeErrorMessage holds no 64-hex-digit sequence,
\* no nsec-encoded key, and no key= or secret= fragment still followed by
\* its original value.
C13_SanitizedHoldsNoSecret ==
    (epc = "printed" /\ site = "main-modular") =>
        \A i \in DOMAIN printed.body :
            /\ printed.body[i].value \notin {"hex64", "nsec1"}
            /\ printed.body[i].label \in Labels =>
                  printed.body[i].value \notin SecretValues

(***************************************************************************)
(* Signing, the NIP-98 authentication event, and verify.  A string that    *)
(* is taken apart is a sequence of pieces; the hash of an event is the     *)
(* serialised data it is computed from, a signature names its signer and   *)
(* the hash it was made over.                                              *)
(***************************************************************************)
KIND_NIP98_AUTH == 27235

\* secret keys and their public keys
SecretKeys == {"k1", "k2"}
getPublicKey(sk) == IF sk = "k1" THEN "P1" ELSE "P2"

\* a url that keeps its slashes
UrlKeepingSlash(url) == url

\* url.replace(/\/$/, ''): one '/' at the end goes
StripTrailingSlash(url) ==
    IF Len(url) > 0 /\ url[Len(url)] = "/" THEN SubSeq(url, 1, Len(url) - 1) ELSE url

\* method.toUpperCase()
UpperCase(piece) ==
    CASE piece \in {"get", "GET"} -> "GET"
      [] piece \in {"Post", "POST"} -> "POST"
      [] OTHER -> piece
toUpperCase(str) == [i \in DOMAIN str |-> UpperCase(str[i])]

\* the urls and methods apiRequest passes to createNIP98Auth
Urls == {<<"https://x/y">> \o [i \in 1..n |-> "/"] : n \in 0..MaxSlashes}
Methods == {<<"get">>, <<"GET">>, <<"Post">>, <<"POST">>}

\* fetchErrorMessage of the git wrapper: `${server}/api/git/${path}/git-receive-pack`,
\* command === 'push' ? 'POST' : 'GET'
WrapperUrls == {<<"https://x/api/git/r/git-receive-pack">>}
WrapperMethods == {<<"POST">>, <<"GET">>}

\* the hash without the content
EventHashWithoutContent(e) ==
    [pubkey |-> e.pubkey, created_at |-> e.created_at, kind |-> e.kind,
     tags |-> e.tags, content |-> ""]

\* getEventHash(event): sha256 of [0, pubkey, created_at, kind, tags, content]
getEventHash(e) ==
    [pubkey |-> e.pubkey, created_at |-> e.created_at, kind |-> e.kind,
     tags |-> e.tags, content |-> e.content]

\* schnorr: sign(hash, secretKey) and verify(sig, hash, pubkey)
SchnorrSign(hash, sk) == [signer |-> getPublicKey(sk), over |-> hash]
SchnorrVerify(sig, hash, pubkey) == sig.signer = pubkey /\ sig.over = hash

\* an event before it is signed
EventTemplate(kind, created_at, tags, content) ==
    [kind |-> kind, pubkey |-> "", created_at |-> created_at, tags |-> tags,
     content |-> content, id |-> NoHash, sig |-> [signer |-> "", over |-> NoHash]]

\* signing with the id computed before the pubkey is set
FinalizeWithEarlyId(t, sk) ==
    [t EXCEPT !.pubkey = getPublicKey(sk),
              !.id = getEventHash(t),
              !.sig = SchnorrSign(getEventHash(t), sk)]

\* finalizeEvent(t, secretKey): pubkey, id, sig
finalizeEvent(t, sk) ==
    LET withKey == [t EXCEPT !.pubkey = getPublicKey(sk)]
    IN [withKey EXCEPT !.id = getEventHash(withKey),
                       !.sig = SchnorrSign(getEventHash(withKey), sk)]

\* verifyEvent(event): the hash must be the id, the signature must be by
\* pubkey over that hash
verifyEvent(e) ==
    LET hash == getEventHash(e)
    IN hash = e.id /\ SchnorrVerify(e.sig, hash, e.pubkey)

\* the value of the first tag of that name
TagValue(e, name) ==
    LET at == {i \in DOMAIN e.tags : e.tags[i].name = name}
    IN IF at = {} THEN <<>> ELSE e.tags[CHOOSE i \in at : \A j \in at : i <= j].value

\* what the publish commands sign
EventKinds == {1, 30617}
EventTags == {<<>>, <<Tag("t", <<"x">>)>>}
EventContents == {"", "hello"}
OtherContent(content) == IF content = "hello" THEN "hello!" ELSE "hello"

InitAuth ==
    /\ ResIdle
    /\ PubIdle
    /\ ErrIdle
    /\ NormIdle
    /\ MainIdle
    /\ PushIdle
    /\ UnIdle
    /\ HookIdle
    /\ GitIdle
    /\ StoreIdle
    /\ authImpl = "none"
    /\ reqUrl = <<>>
    /\ reqMethod = <<>>
    /\ event = NoEvent
    /\ tamper = "none"
    /\ report = NoReport
    /\ verifyJson = FALSE
    /\ verifyExit = -1
    /\ apc = "start"

\* createNIP98Auth(url, method) of utils/auth.js and gitrepublic.js
createNIP98Auth ==
    /\ apc = "start"
    /\ \E url \in Urls, method \in Methods, sk \in SecretKeys, now \in 1..MaxTime :
          /\ reqUrl' = url
          /\ reqMethod' = method
          /\ event' = finalizeEvent(
                 EventTemplate(KIND_NIP98_AUTH, now,
                     <<Tag("u", StripTrailingSlash(url)),
                       Tag("method", toUpperCase(method))>>, ""), sk)
    /\ authImpl' = "auth.js"
    /\ apc' = "signed"
    /\ UNCHANGED <<tamper, report, verifyJson, verifyExit>>
    /\ UNCHANGED notAuthVars

\* createNIP98Auth(url, method) of git-wrapper.js, called by fetchErrorMessage
WrapperCreateNIP98Auth ==
    /\ apc = "start"
    /\ \E url \in WrapperUrls, method \in WrapperMethods, sk \in SecretKeys,
          now \in 1..MaxTime :
          /\ reqUrl' = url
          /\ reqMethod' = method
          /\ event' = finalizeEvent(
                 EventTemplate(KIND_NIP98_AUTH, now,
                     <<Tag("u", url), Tag("method", method)>>, ""), sk)
    /\ authImpl' = "git-wrapper.js"
    /\ apc' = "signed"
    /\ UNCHANGED <<tamper, report, verifyJson, verifyExit>>
    /\ UNCHANGED notAuthVars

\* a publish command signs its event: finalizeEvent({kind, created_at, tags, content}, key)
SignEvent ==
    /\ apc = "start"
    /\ \E kind \in EventKinds, tags \in EventTags, content \in EventContents,
          sk \in SecretKeys, now \in 1..MaxTime :
          event' = finalizeEvent(EventTemplate(kind, now, tags, content), sk)
    /\ apc' = "signed"
    /\ UNCHANGED <<authImpl, reqUrl, reqMethod, tamper, report, verifyJson, verifyExit>>
    /\ UNCHANGED notAuthVars

\* the event is written out; somebody may change it before verify reads it:
\* the content, the content and the id, or the signature
StoreEvent ==
    /\ apc = "signed"
    /\ \E how \in {"none", "content", "content+id", "sig"}, forger \in SecretKeys :
          /\ tamper' = how
          /\ event' =
               CASE how = "none" -> event
                 [] how = "content" ->
                      [event EXCEPT !.content = OtherContent(event.content)]
                 [] how = "content+id" ->
                      LET changed == [event EXCEPT !.content = OtherContent(event.content)]
                      IN [changed EXCEPT !.id = getEventHash(changed)]
                 [] how = "sig" ->
                      [event EXCEPT !.sig =
                          IF getPublicKey(forger) = event.pubkey
                          THEN [signer |-> "", over |-> event.id]
                          ELSE SchnorrSign(event.id, forger)]
    /\ apc' = "stored"
    /\ UNCHANGED <<authImpl, reqUrl, reqMethod, report, verifyJson, verifyExit>>
    /\ UNCHANGED notAuthVars

\* verify: signatureValid = verifyEvent(event), idMatches = event.id === getEventHash(event)
\* the status verify ends with: process.exit(1) stands in the text branch
\* only, after the --json branch the handler returns and main exits with 0
VerifyExit(json, signatureValid, idMatches) ==
    IF json THEN 0
    ELSE IF signatureValid /\ idMatches THEN 0 ELSE 1

verify ==
    /\ apc = "stored"
    /\ report' = [ran |-> TRUE,
                  signatureValid |-> verifyEvent(event),
                  idMatches |-> event.id = getEventHash(event)]
    /\ \E json \in BOOLEAN :
          /\ verifyJson' = json
          /\ verifyExit' = VerifyExit(json, verifyEvent(event),
                                      event.id = getEventHash(event))
    /\ apc' = "verified"
    /\ UNCHANGED <<authImpl, reqUrl, reqMethod, event, tamper>>
    /\ UNCHANGED notAuthVars

NextAuth ==
    \/ createNIP98Auth
    \/ WrapperCreateNIP98Auth
    \/ SignEvent
    \/ StoreEvent
    \/ verify

SpecAuth == InitAuth /\ [][NextAuth]_vars

\* C14: the authentication event for a request to url u with method m
\* carries ['u', u without its trailing slash] and ['method', m in upper
\* case]; "https://x/y/" and "https://x/y" give the same 'u' value.
C14_AuthTagsBindUrlAndMethod ==
    (apc = "signed" /\ authImpl # "none") =>
        /\ event.kind = KIND_NIP98_AUTH
        /\ TagValue(event, "u") =
              IF reqUrl[Len(reqUrl)] = "/" THEN SubSeq(reqUrl, 1, Len(reqUrl) - 1)
              ELSE reqUrl
        /\ reqUrl \in {<<"https://x/y">>, <<"https://x/y", "/">>}
              => TagValue(event, "u") = <<"https://x/y">>
        /\ reqMethod \in {<<"get">>, <<"GET">>} => TagValue(event, "method") = <<"GET">>
        /\ reqMethod \in {<<"Post">>, <<"POST">>} => TagValue(event, "method") = <<"POST">>

C14_Witness ==
    /\ apc = "signed"
    /\ authImpl = "auth.js"
    /\ reqUrl = <<"https://x/y", "/">>
    /\ reqMethod = <<"get">>
    /\ TagValue(event, "u") = <<"https://x/y">>
    /\ TagValue(event, "method") = <<"GET">>

(***************************************************************************)
(* normalizeRelayUrl applied twice.  extractRelayUrls normalises every      *)
(* address of a record and enhanceRelayList normalises the extracted lists  *)
(* again, so every address of a record goes through the function twice.     *)
(***************************************************************************)
\* the address strings of the model: every combination of the parts that
\* makes a string (separators are repeated only between segments; a string
\* that starts with its path has a scheme)
NormSchemes == {"", "ws", "wss", "http", "https", "file"}
NormHosts == {"", "h", "a b"}
NormPorts == {"", "80", "443", "8080"}
NormPaths == {<<>>, <<"x">>}
NormQueries == {<<>>, <<1, 2>>, <<2, 1>>}
NormInputs ==
    {EmptyString} \cup
    { u \in { Addr(w, sc, h, p, pa, d, t, q, f) :
                 w \in BOOLEAN, sc \in NormSchemes, h \in NormHosts,
                 p \in NormPorts, pa \in NormPaths, d \in BOOLEAN,
                 t \in 0..MaxSlashes, q \in NormQueries, f \in BOOLEAN } :
        /\ u.dbl => u.path # <<>>
        /\ u.host = "" => u.scheme # "" /\ u.port = ""
        /\ (u.host = "" /\ u.scheme # "file") => u.path = <<>> }

InitNormalize ==
    /\ ResIdle
    /\ PubIdle
    /\ ErrIdle
    /\ AuthIdle
    /\ MainIdle
    /\ PushIdle
    /\ UnIdle
    /\ HookIdle
    /\ GitIdle
    /\ StoreIdle
    /\ nurl \in NormInputs
    /\ once = Null
    /\ twice = Null
    /\ npc = "start"

\* extractRelayUrls: normalizeRelayUrl(tag[1]), null results are dropped
NormalizeOnce ==
    /\ npc = "start"
    /\ once' = normalizeRelayUrl(nurl)
    /\ npc' = IF normalizeRelayUrl(nurl) = Null THEN "dropped" ELSE "once"
    /\ UNCHANGED <<nurl, twice>>
    /\ UNCHANGED notNormVars

\* enhanceRelayList: outboxes.map(url => normalizeRelayUrl(url))
NormalizeAgain ==
    /\ npc = "once"
    /\ twice' = normalizeRelayUrl(once)
    /\ npc' = "twice"
    /\ UNCHANGED <<nurl, once>>
    /\ UNCHANGED notNormVars

NextNormalize ==
    \/ NormalizeOnce
    \/ NormalizeAgain

SpecNormalize == InitNormalize /\ [][NextNormalize]_vars

\* C15: normalizeRelayUrl is idempotent: for every address string whose
\* normal form is not null, normalising the normal form gives it back.
C15_NormalizeIdempotent ==
    npc = "twice" => twice = once

\* C30: verify ends with a status other than 0 when signatureValid or
\* idMatches is false and with 0 when both are true, with and without --json.
C30_VerifyExitStatus ==
    apc = "verified" =>
        ((verifyExit = 0) <=> (report.signatureValid /\ report.idMatches))

\* the string is empty, or new URL rejects it (with 'wss://' in front when it
\* names no scheme)
EmptyOrUnparsable(u) ==
    \/ u = EmptyString
    \/ ~ParseOk(AddProtocol([u EXCEPT !.ws = FALSE]))

\* C27: for an empty or unparsable address normalizeRelayUrl returns null,
\* so that the tag extraction and enhanceRelayList drop the entry and it is
\* not part of their result.
C27_UnparsableGivesNull ==
    (npc # "start" /\ EmptyOrUnparsable(nurl)) => (once = Null /\ npc = "dropped")

\* C16: for an event whose content was changed after signing verify reports
\* idMatches = false, and it reports signatureValid separately: a forged
\* signature gives idMatches true and signatureValid false, so the two
\* reports differ.
C16_TamperedContentReported ==
    apc = "verified" =>
        /\ report.ran
        /\ tamper = "content" => ~report.idMatches
        /\ tamper = "sig" => (report.idMatches /\ ~report.signatureValid)

C16_Witness ==
    /\ apc = "verified"
    /\ tamper = "content"
    /\ ~report.idMatches
    /\ event.content = "hello!"

HelperKinds == {"gitrepublic", "other"}
ShellLines == {"NOSTRGIT_SECRET_KEY", "GITREPUBLIC_SERVER", "other"}
Systems ==
    { System(h, hp, hf, d, de, lh, sh) :
        h \in SUBSET HelperKinds, hp \in BOOLEAN, hf \in BOOLEAN, d \in BOOLEAN,
        de \in BOOLEAN, lh \in {"none", "gitrepublic", "other"},
        sh \in {{}, {"other"}, {"NOSTRGIT_SECRET_KEY", "other"}, ShellLines} }
ValidSystem(x) ==
    /\ (x.hookFile \/ x.dirOther) => x.dirExists
    /\ x.dirExists => x.hooksPath

InitUninstall ==
    /\ ResIdle
    /\ PubIdle
    /\ ErrIdle
    /\ AuthIdle
    /\ NormIdle
    /\ MainIdle
    /\ PushIdle
    /\ HookIdle
    /\ GitIdle
    /\ StoreIdle
    /\ unDryRun \in BOOLEAN
    /\ keepEnv \in BOOLEAN
    /\ sys \in {x \in Systems : ValidSystem(x)}
    /\ sys0 = sys
    /\ removed = 0
    /\ upc = "start"

\* lines 154-184: every helper line naming gitrepublic is listed, and unset
\* unless this is a dry run
RemoveCredentialHelpers ==
    /\ upc = "start"
    /\ sys' = IF unDryRun THEN sys
               ELSE [sys EXCEPT !.helpers = sys.helpers \ {"gitrepublic"}]
    /\ removed' = removed + (IF "gitrepublic" \in sys.helpers THEN 1 ELSE 0)
    /\ upc' = "credentials"
    /\ UNCHANGED <<unDryRun, keepEnv, sys0>>
    /\ UNCHANGED notUnVars

\* lines 186-225: the hook file goes unless this is a dry run, the directory
\* with it when that leaves it empty; core.hooksPath is unset in either mode
RemoveGlobalHook ==
    /\ upc = "credentials"
    /\ LET unlink == sys.hooksPath /\ sys.hookFile /\ ~unDryRun
       IN sys' = [sys EXCEPT !.hookFile = IF unlink THEN FALSE ELSE sys.hookFile,
                             !.dirExists = IF unlink /\ ~sys.dirOther THEN FALSE
                                           ELSE sys.dirExists,
                             !.hooksPath = FALSE]
    /\ removed' = removed + (IF sys.hooksPath /\ sys.hookFile THEN 1 ELSE 0)
    /\ upc' = "globalHook"
    /\ UNCHANGED <<unDryRun, keepEnv, sys0>>
    /\ UNCHANGED notUnVars

\* lines 227-243: .git/hooks/commit-msg goes when it names gitrepublic
RemoveLocalHook ==
    /\ upc = "globalHook"
    /\ sys' = IF sys.localHook = "gitrepublic" /\ ~unDryRun
               THEN [sys EXCEPT !.localHook = "none"] ELSE sys
    /\ removed' = removed + (IF sys.localHook = "gitrepublic" THEN 1 ELSE 0)
    /\ upc' = "localHook"
    /\ UNCHANGED <<unDryRun, keepEnv, sys0>>
    /\ UNCHANGED notUnVars

\* removeFromShellConfig for the two patterns, unless --keep-env
ShellPatterns == {"NOSTRGIT_SECRET_KEY", "GITREPUBLIC_SERVER"}
RemoveEnvironment ==
    /\ upc = "localHook"
    /\ sys' = IF keepEnv \/ unDryRun THEN sys
               ELSE [sys EXCEPT !.shell = sys.shell \ ShellPatterns]
    /\ removed' = removed + (IF keepEnv THEN 0
                             ELSE Cardinality(sys.shell \cap ShellPatterns))
    /\ upc' = "done"
    /\ UNCHANGED <<unDryRun, keepEnv, sys0>>
    /\ UNCHANGED notUnVars

NextUninstall ==
    \/ RemoveCredentialHelpers
    \/ RemoveGlobalHook
    \/ RemoveLocalHook
    \/ RemoveEnvironment

SpecUninstall == InitUninstall /\ [][NextUninstall]_vars

\* C21: with --dry-run the uninstall script changes nothing: the global
\* git configuration, the hook files and the shell configuration file are
\* left exactly as they were.
C21_DryRunChangesNothing ==
    unDryRun => sys = sys0

(***************************************************************************)
(* The commit-msg hook (signCommitMessage).  The text of the message file  *)
(* is a sequence of pieces: the words of the message, and trailers.        *)
(***************************************************************************)
\* most runs of the hook on one message file
MaxHookRuns == 2

KIND_COMMIT_SIGNATURE == 1640

\* a piece of text, and the trailer "Nostr-Signature: <id> <pubkey> <sig>"
Piece(text) == [kind |-> "text", text |-> text, id |-> NoHash]
SignatureTrailer(e) == [kind |-> "Nostr-Signature:", text |-> e.pubkey, id |-> e.id]
EventTrailer(e) == [kind |-> "Nostr-Event:", text |-> e.pubkey, id |-> e.id]

\* the event behind the trailer of a message that was signed earlier
OldEvent ==
    finalizeEvent(EventTemplate(KIND_COMMIT_SIGNATURE, 1,
                                <<Tag("message", <<Piece("old")>>)>>, "old"), "k1")

\* the message files the hook is started on
MessageFiles ==
    { NoFile,
      MessageFile(TRUE, <<Piece("fix")>>),
      MessageFile(TRUE, <<Piece("fix"), Piece("more")>>),
      MessageFile(TRUE, <<Piece("old"), SignatureTrailer(OldEvent)>>) }

\* commitMessage.includes('Nostr-Signature:') with no such text
NeverAlreadySigned(pieces) == FALSE

\* commitMessage.includes('Nostr-Signature:')
AlreadySigned(pieces) == \E i \in DOMAIN pieces : pieces[i].kind = "Nostr-Signature:"

\* cancelling for any value of the variable
CancelWhenSet(value) == value # "unset"

\* process.env.GITREPUBLIC_CANCEL_ON_SIGN_FAIL === 'true'
cancelOnFailure(value) == value = "true"

\* the catch block of signCommitMessage: the exit status
CatchExit(env) == IF cancelOnFailure(env.cancel) THEN 1 ELSE 0

\* the key behind a value decodeNostrKey accepts
HookKeys == {"unset", "hex64", "nsec-valid", "nsec-bad", "npub"}
KeyBytes(key) == IF key = "hex64" THEN "k1" ELSE "k2"

HookEnvs ==
    [cancel : {"unset", "true", "1"}, signOnly : BOOLEAN, gitRepublic : BOOLEAN,
     includeFull : BOOLEAN, publish : BOOLEAN]

InitHook ==
    /\ ResIdle
    /\ PubIdle
    /\ ErrIdle
    /\ AuthIdle
    /\ NormIdle
    /\ MainIdle
    /\ PushIdle
    /\ UnIdle
    /\ GitIdle
    /\ StoreIdle
    /\ hookKey \in HookKeys
    /\ hookEnv \in HookEnvs
    /\ msgFile \in MessageFiles
    /\ jsonl = <<>>
    /\ hookNet = <<>>
    /\ signedEvent = NoEvent
    /\ signFailed = FALSE
    /\ atStart = Snapshot(msgFile, <<>>, <<>>)
    /\ runs = 1
    /\ hpc = "start"
    /\ hookExit = -1

\* lines 235-270: the key, the repository test, reading the file, the test
\* for a message that is already signed
HookRead ==
    /\ hpc = "start"
    /\ IF hookKey = "unset" \/ (~hookEnv.gitRepublic /\ hookEnv.signOnly)
       THEN /\ hpc' = "exited"
            /\ hookExit' = 0
            /\ UNCHANGED signFailed
       ELSE IF ~msgFile.exists
       THEN /\ hpc' = "exited"
            /\ hookExit' = CatchExit(hookEnv)
            /\ signFailed' = TRUE
       ELSE IF AlreadySigned(msgFile.pieces)
       THEN /\ hpc' = "exited"
            /\ hookExit' = 0
            /\ UNCHANGED signFailed
       ELSE /\ hpc' = "read"
            /\ UNCHANGED <<hookExit, signFailed>>
    /\ UNCHANGED <<hookKey, hookEnv, msgFile, jsonl, hookNet, signedEvent, atStart, runs>>
    /\ UNCHANGED notHookVars

\* lines 272-316: decodeNostrKey, the event template, finalizeEvent
HookFinalize ==
    /\ hpc = "read"
    /\ \E echo \in BOOLEAN, timestamp \in 1..MaxTime :
          IF decodeNostrKey(hookKey, echo) # NoMessage
          THEN /\ hpc' = "exited"
               /\ hookExit' = CatchExit(hookEnv)
               /\ signFailed' = TRUE
               /\ UNCHANGED signedEvent
          ELSE /\ signedEvent' =
                    finalizeEvent(EventTemplate(KIND_COMMIT_SIGNATURE, timestamp,
                                                <<Tag("message", msgFile.pieces)>>,
                                                "Signed commit"),
                                  KeyBytes(hookKey))
               /\ hpc' = "signed"
               /\ UNCHANGED <<hookExit, signFailed>>
    /\ UNCHANGED <<hookKey, hookEnv, msgFile, jsonl, hookNet, atStart, runs>>
    /\ UNCHANGED notHookVars

\* lines 318-355: the event is appended to commit-signatures.jsonl; a
\* failure is logged and signing goes on
HookStoreEvent ==
    /\ hpc = "signed"
    /\ \E stored \in BOOLEAN :
          jsonl' = IF stored THEN Append(jsonl, signedEvent) ELSE jsonl
    /\ hpc' = "stored"
    /\ UNCHANGED <<hookKey, hookEnv, msgFile, hookNet, signedEvent, signFailed,
                   atStart, runs, hookExit>>
    /\ UNCHANGED notHookVars

\* lines 357-372: the trailers are put after the message and the file is
\* written; a failed write reaches the catch block
HookWriteMessage ==
    /\ hpc = "stored"
    /\ \E written \in BOOLEAN :
          IF written
          THEN /\ msgFile' =
                    [msgFile EXCEPT !.pieces =
                        msgFile.pieces \o <<SignatureTrailer(signedEvent)>> \o
                        (IF hookEnv.includeFull THEN <<EventTrailer(signedEvent)>>
                         ELSE <<>>)]
               /\ hpc' = IF hookEnv.publish THEN "written" ELSE "exited"
               /\ hookExit' = IF hookEnv.publish THEN -1 ELSE 0
               /\ UNCHANGED signFailed
          ELSE /\ hpc' = "exited"
               /\ hookExit' = CatchExit(hookEnv)
               /\ signFailed' = TRUE
               /\ UNCHANGED msgFile
    /\ UNCHANGED <<hookKey, hookEnv, jsonl, hookNet, signedEvent, atStart, runs>>
    /\ UNCHANGED notHookVars

\* lines 374-404: pool.publish(relays, signedEvent) and pool.close; the
\* promises pool.publish returns are not awaited one by one, so a relay
\* that rejects ends the process with 1
HookPublish ==
    /\ hpc = "written"
    /\ hookNet' = Append(hookNet, signedEvent)
    /\ \E code \in {0, 1} : hookExit' = code
    /\ hpc' = "exited"
    /\ UNCHANGED <<hookKey, hookEnv, msgFile, jsonl, signedEvent, signFailed,
                   atStart, runs>>
    /\ UNCHANGED notHookVars

\* git runs the hook again on the same file (commit --amend, a retry)
HookAgain ==
    /\ hpc = "exited"
    /\ runs < MaxHookRuns
    /\ runs' = runs + 1
    /\ atStart' = Snapshot(msgFile, jsonl, hookNet)
    /\ signedEvent' = NoEvent
    /\ signFailed' = FALSE
    /\ hpc' = "start"
    /\ hookExit' = -1
    /\ UNCHANGED <<hookKey, hookEnv, msgFile, jsonl, hookNet>>
    /\ UNCHANGED notHookVars

NextHook ==
    \/ HookRead
    \/ HookFinalize
    \/ HookStoreEvent
    \/ HookWriteMessage
    \/ HookPublish
    \/ HookAgain

SpecHook == InitHook /\ [][NextHook]_vars

\* the file holds a Nostr-Signature trailer
HasTrailer(file) ==
    \E i \in DOMAIN file.pieces : file.pieces[i].kind = "Nostr-Signature:"

\* C22: when signing fails inside the commit-msg hook, the hook exits with
\* a non-zero status if and only if GITREPUBLIC_CANCEL_ON_SIGN_FAIL is
\* 'true'; otherwise it exits 0 and the message file has no
\* Nostr-Signature trailer.
C22_SignFailureExit ==
    (hpc = "exited" /\ signFailed) =>
        /\ hookExit # 0 <=> hookEnv.cancel = "true"
        /\ hookExit = 0 => ~HasTrailer(msgFile)

C22_Witness ==
    /\ hpc = "exited"
    /\ signFailed
    /\ hookEnv.cancel = "1"
    /\ hookExit = 0
    /\ jsonl # <<>>

\* C28: the hook never signs twice: started on a message that holds a
\* Nostr-Signature trailer it leaves the file as it is, appends nothing to
\* commit-signatures.jsonl and publishes nothing, so a second run on the
\* same file gives the file of the first run.
C28_NeverDoubleSigns ==
    HasTrailer(atStart.file) =>
        /\ msgFile = atStart.file
        /\ jsonl = atStart.log
        /\ hookNet = atStart.net

C28_Witness ==
    /\ hpc = "exited"
    /\ runs = 2
    /\ hookKey = "hex64"
    /\ HasTrailer(atStart.file)
    /\ atStart.log # <<>>
    /\ atStart.net # <<>>
    /\ atStart.file.pieces[1] = Piece("fix")

(***************************************************************************)
(* The git wrapper: a command that is not an API command is handed to git  *)
(* (runGitCommand) and the wrapper exits with process.exit(code || 0).     *)
(***************************************************************************)
REMOTE_COMMANDS == {"clone", "push", "pull", "fetch", "ls-remote"}

\* the commands of the model: a command and, for a remote command, whether
\* the URL of the remote is a GitRepublic URL
GitCommand(name, gitRepublicUrl) == [name |-> name, gitRepublicUrl |-> gitRepublicUrl]
GitCommands ==
    {GitCommand(n, FALSE) : n \in {"commit", "status", "clone", "push", "fetch"}}
    \cup {GitCommand(n, TRUE) : n \in {"clone", "push", "fetch"}}

\* the ways the git process ends: an exit status, a signal, or spawn fails
GitEnds ==
    {Ended("exit", c) : c \in {0, 1, 128}} \cup {Ended("signal", 0), Ended("error", 0)}

\* runGitCommand: 'close' gives the exit status, null after a signal;
\* 'error' gives 1
ResultCode(end) ==
    CASE end.kind = "exit" -> end.code
      [] end.kind = "signal" -> NullCode
      [] OTHER -> 1

\* code || 0
OrZero(code) == IF code = NullCode THEN 0 ELSE code

InitGit ==
    /\ ResIdle
    /\ PubIdle
    /\ ErrIdle
    /\ AuthIdle
    /\ NormIdle
    /\ MainIdle
    /\ PushIdle
    /\ UnIdle
    /\ HookIdle
    /\ StoreIdle
    /\ gitCmd \in GitCommands
    /\ gitEnd = NotEnded
    /\ gitResult = NullCode
    /\ authError = FALSE
    /\ detailShown = FALSE
    /\ wrapperExit = -1
    /\ gpc = "start"

\* runGitCommand(command, commandArgs)
RunGitCommand ==
    /\ gpc = "start"
    /\ \E end \in GitEnds, auth \in BOOLEAN :
          /\ gitEnd' = end
          /\ gitResult' = ResultCode(end)
          /\ authError' = (auth /\ end # Ended("exit", 0))
    /\ gpc' = "ran"
    /\ UNCHANGED <<gitCmd, detailShown, wrapperExit>>
    /\ UNCHANGED notGitVars

\* lines 352-369: a clone of another URL and a command that is not a
\* remote command end with process.exit(result.code || 0)
PassThrough ==
    /\ gpc = "ran"
    /\ \/ gitCmd.name = "clone" /\ ~gitCmd.gitRepublicUrl
       \/ gitCmd.name \notin REMOTE_COMMANDS
    /\ wrapperExit' = OrZero(gitResult)
    /\ gpc' = "exited"
    /\ UNCHANGED <<gitCmd, gitEnd, gitResult, authError, detailShown>>
    /\ UNCHANGED notGitVars

\* lines 371-459: a remote command; after a failure with 401 or 403 the
\* wrapper explains it, then process.exit(result.code || 0)
RemoteCommand ==
    /\ gpc = "ran"
    /\ gitCmd.name \in REMOTE_COMMANDS
    /\ ~(gitCmd.name = "clone" /\ ~gitCmd.gitRepublicUrl)
    /\ detailShown' = (gitResult # 0 /\ authError /\ gitCmd.gitRepublicUrl)
    /\ wrapperExit' = OrZero(gitResult)
    /\ gpc' = "exited"
    /\ UNCHANGED <<gitCmd, gitEnd, gitResult, authError>>
    /\ UNCHANGED notGitVars

NextGit ==
    \/ RunGitCommand
    \/ PassThrough
    \/ RemoteCommand

SpecGit == InitGit /\ [][NextGit]_vars

\* C23: for every git command passed through the wrapper the wrapper
\* exits with the status of the git process; a git process that did not
\* exit with status 0 is never reported as success.
C23_WrapperKeepsGitStatus ==
    gpc = "exited" =>
        /\ gitEnd.kind = "exit" => wrapperExit = gitEnd.code
        /\ wrapperExit = 0 => gitEnd = Ended("exit", 0)

(***************************************************************************)
(* A publish subcommand: the signed event is appended to a file of nostr/   *)
(* and the report names the file.                                           *)
(***************************************************************************)
\* the subcommands and the kinds of the events they sign; publish event
\* signs any kind given with --kind (1 by default)
StoreSubs ==
    {"repo-announcement", "ownership-transfer", "pr", "issue", "status",
     "patch", "repo-state", "pr-update", "event"}
StoreKinds(sub) ==
    CASE sub = "repo-announcement" -> {30617}
      [] sub = "ownership-transfer" -> {1641}
      [] sub = "pr" -> {1618}
      [] sub = "issue" -> {1621}
      [] sub = "status" -> {1630, 1631, 1632, 1633}
      [] sub = "patch" -> {1617}
      [] sub = "repo-state" -> {30618}
      [] sub = "pr-update" -> {1619}
      [] sub = "event" -> {1, 7, 1621, 30617}

\* the switch of storeEventInJsonl: the file an event of a kind goes to
JsonlFileOf(kind) ==
    CASE kind = 30617 -> FileName("repo-announcements.jsonl", 0)
      [] kind = 1641 -> FileName("ownership-transfers.jsonl", 0)
      [] kind = 1617 -> FileName("patches.jsonl", 0)
      [] kind = 1618 -> FileName("pull-requests.jsonl", 0)
      [] kind = 1619 -> FileName("pull-request-updates.jsonl", 0)
      [] kind = 1621 -> FileName("issues.jsonl", 0)
      [] kind \in {1630, 1631, 1632, 1633} -> FileName("status-events.jsonl", 0)
      [] kind = 30618 -> FileName("repo-states.jsonl", 0)
      [] OTHER -> FileName("events-kind-", kind)

\* storeEventInJsonl(event): nothing outside a repository, nothing when the
\* directory or the file cannot be written (the catch block is empty)
storeEventInJsonl(kind, repo, fails, files) ==
    IF ~repo \/ fails THEN files
    ELSE files \cup {[file |-> JsonlFileOf(kind), kind |-> kind]}

\* the switch of getEventStorageFile
getEventStorageFile(kind) ==
    CASE kind = 30617 -> FileName("repo-announcements.jsonl", 0)
      [] kind = 1641 -> FileName("ownership-transfers.jsonl", 0)
      [] kind = 1617 -> FileName("patches.jsonl", 0)
      [] kind = 1618 -> FileName("pull-requests.jsonl", 0)
      [] kind = 1619 -> FileName("pull-request-updates.jsonl", 0)
      [] kind = 1621 -> FileName("issues.jsonl", 0)
      [] kind \in {1630, 1631, 1632, 1633} -> FileName("status-events.jsonl", 0)
      [] kind = 30618 -> FileName("repo-states.jsonl", 0)
      [] OTHER -> FileName("events-kind-", kind)

\* the file name in the console.log of each subcommand of gitrepublic.js
LegacyStoredFile(sub, kind) ==
    CASE sub = "repo-announcement" -> FileName("repo-announcements.jsonl", 0)
      [] sub = "ownership-transfer" -> FileName("ownership-transfers.jsonl", 0)
      [] sub = "pr" -> FileName("pull-requests.jsonl", 0)
      [] sub = "issue" -> FileName("issues.jsonl", 0)
      [] sub = "status" -> FileName("status-events.jsonl", 0)
      [] sub = "patch" -> FileName("patches.jsonl", 0)
      [] sub = "repo-state" -> FileName("repo-states.jsonl", 0)
      [] sub = "pr-update" -> FileName("pull-request-updates.jsonl", 0)
      [] sub = "event" -> FileName("events-kind-", kind)

\* the 'Event stored in nostr/<file>' line of the report; --json prints the
\* event and the result only
StoredLine(im, sub, kind, json) ==
    IF json THEN NoLine
    ELSE IF im = "modular" THEN getEventStorageFile(kind)
    ELSE LegacyStoredFile(sub, kind)

InitStore ==
    /\ ResIdle
    /\ PubIdle
    /\ ErrIdle
    /\ AuthIdle
    /\ NormIdle
    /\ MainIdle
    /\ PushIdle
    /\ UnIdle
    /\ HookIdle
    /\ GitIdle
    /\ storeImpl \in {"modular", "legacy"}
    /\ storeSub \in StoreSubs
    /\ storeKind \in StoreKinds(storeSub)
    /\ inRepo \in BOOLEAN
    /\ appendFails \in BOOLEAN
    /\ storeJson \in BOOLEAN
    /\ appended = {}
    /\ storedLine = NoLine
    /\ stpc = "signed"

\* storeEventInJsonl(event), called with the signed event
StoreInJsonl ==
    /\ stpc = "signed"
    /\ appended' = storeEventInJsonl(storeKind, inRepo, appendFails, appended)
    /\ stpc' = "stored"
    /\ UNCHANGED <<storeImpl, storeSub, storeKind, inRepo, appendFails, storeJson,
                   storedLine>>
    /\ UNCHANGED notStoreVars

\* after await publishToRelays(...): the report of the subcommand
PrintPublished ==
    /\ stpc = "stored"
    /\ storedLine' = StoredLine(storeImpl, storeSub, storeKind, storeJson)
    /\ stpc' = "done"
    /\ UNCHANGED <<storeImpl, storeSub, storeKind, inRepo, appendFails, storeJson,
                   appended>>
    /\ UNCHANGED notStoreVars

NextStore ==
    \/ StoreInJsonl
    \/ PrintPublished

SpecStore == InitStore /\ [][NextStore]_vars

\* C29: when a publish subcommand has printed 'Event stored in nostr/<file>',
\* the signed event has been appended to that file; the line is not printed
\* when storing was skipped or failed.
C29_StoredMessageIsTrue ==
    storedLine # NoLine =>
        [file |-> storedLine, kind |-> storeKind] \in appended

(***************************************************************************)
(* push-all: git push to every remote of the repository, one after the     *)
(* other, then a summary.                                                  *)
(***************************************************************************)
\* most remotes git remote lists
MaxRemotes == 3

\* the name of the i-th remote
RemoteName(i) == <<"remote", i>>
RemoteLists == {[i \in 1..n |-> RemoteName(i)] : n \in 0..MaxRemotes}

PushResult(remote, status) == [remote |-> remote, status |-> status]

InitPushAll ==
    /\ ResIdle
    /\ PubIdle
    /\ ErrIdle
    /\ AuthIdle
    /\ NormIdle
    /\ MainIdle
    /\ UnIdle
    /\ HookIdle
    /\ GitIdle
    /\ StoreIdle
    /\ pushImpl \in {"modular", "legacy"}
    /\ pushJson \in BOOLEAN
    /\ dryRun \in BOOLEAN
    /\ remotes = <<>>
    /\ results = <<>>
    /\ successCount = 0
    /\ failCount = 0
    /\ summary = NoSummary
    /\ ppc = "start"
    /\ pushExit = -1

\* git remote: outside a repository, or with no remote, push-all prints an
\* error and exits with 1
ReadRemotes ==
    /\ ppc = "start"
    /\ \/ /\ remotes' = <<>>
          /\ ppc' = "exited"
          /\ pushExit' = 1
       \/ \E list \in RemoteLists :
             /\ remotes' = list
             /\ ppc' = IF list = <<>> THEN "exited" ELSE "pushing"
             /\ pushExit' = IF list = <<>> THEN 1 ELSE -1
    /\ UNCHANGED <<pushImpl, pushJson, dryRun, results, successCount, failCount, summary>>
    /\ UNCHANGED notPushVars

\* one turn of the loop: git push <remote> succeeds or fails
PushRemote ==
    /\ ppc = "pushing"
    /\ Len(results) < Len(remotes)
    /\ LET remote == remotes[Len(results) + 1]
       IN \/ /\ results' = Append(results, PushResult(remote, "success"))
             /\ successCount' = successCount + 1
             /\ UNCHANGED failCount
          \/ /\ results' = Append(results, PushResult(remote, "failed"))
             /\ failCount' = failCount + 1
             /\ UNCHANGED successCount
    /\ UNCHANGED <<pushImpl, pushJson, dryRun, remotes, summary, ppc, pushExit>>
    /\ UNCHANGED notPushVars

\* after the loop: the JSON object, or the text summary and process.exit(1)
\* when a push failed; without process.exit the handler returns and the
\* process ends with status 0
Summarize ==
    /\ ppc = "pushing"
    /\ Len(results) = Len(remotes)
    /\ summary' = [kind |-> IF pushJson THEN "json" ELSE "text",
                   total |-> Len(remotes), success |-> successCount,
                   failed |-> failCount]
    /\ pushExit' = IF ~pushJson /\ failCount > 0 THEN 1 ELSE 0
    /\ ppc' = "exited"
    /\ UNCHANGED <<pushImpl, pushJson, dryRun, remotes, results, successCount, failCount>>
    /\ UNCHANGED notPushVars

NextPushAll ==
    \/ ReadRemotes
    \/ PushRemote
    \/ Summarize

SpecPushAll == InitPushAll /\ [][NextPushAll]_vars

\* some push failed
SomeFailed == \E i \in DOMAIN results : results[i].status = "failed"

\* C20: push-all exits with a non-zero status whenever at least one remote
\* failed, in text mode and with --json; it exits with 0 only when every
\* remote succeeded.
C20_PushAllExitStatus ==
    (ppc = "exited" /\ remotes # <<>>) =>
        /\ SomeFailed => pushExit # 0
        /\ pushExit = 0 => ~SomeFailed

(***************************************************************************)
(* The entry points.  An argument is its leading dashes and the rest of    *)
(* the string: "--server" is two dashes and "server", "-h" one dash and    *)
(* "h", "http://s" and "push-all" no dash.                                 *)
(***************************************************************************)
Arg(dashes, name) == [dashes |-> dashes, name |-> name]
Opt(name) == Arg(2, name)
Short(name) == Arg(1, name)
Positional(name) == Arg(0, name)
NoArg == Arg(0, "")

DEFAULT_SERVER == Positional("http://localhost:5173")
ServerUrl == Positional("http://s")

\* arg.startsWith('--')
startsWithDashes(a) == a.dashes = 2

\* args.findIndex(pred) / args.indexOf(a): 0 stands for -1, indices from 1
RECURSIVE IndexFrom(_, _, _)
IndexFrom(args, i, a) ==
    IF i > Len(args) THEN 0
    ELSE IF args[i] = a THEN i
    ELSE IndexFrom(args, i + 1, a)
indexOf(args, a) == IndexFrom(args, 1, a)
includes(args, a) == indexOf(args, a) > 0

RECURSIVE FirstNonOption(_, _)
FirstNonOption(args, i) ==
    IF i > Len(args) THEN 0
    ELSE IF ~startsWithDashes(args[i]) THEN i
    ELSE FirstNonOption(args, i + 1)
commandIndex(args) == FirstNonOption(args, 1)

CommandOf(args) == IF commandIndex(args) > 0 THEN args[commandIndex(args)] ELSE NoArg
CommandArgsOf(args) ==
    IF commandIndex(args) > 0 THEN SubSeq(args, commandIndex(args) + 1, Len(args))
    ELSE <<>>

ServerOf(args) ==
    LET serverIndex == indexOf(args, Opt("server"))
    IN IF serverIndex > 0 /\ serverIndex + 1 <= Len(args)
       THEN args[serverIndex + 1] ELSE DEFAULT_SERVER

HelpIn(args) == includes(args, Opt("help")) \/ includes(args, Short("h"))
commandHelpRequested(args) == CommandOf(args) # NoArg /\ HelpIn(CommandArgsOf(args))
GeneralHelp(args) == ~commandHelpRequested(args) /\ HelpIn(args)

\* command.replace(/-([a-z])/g, g => g[1].toUpperCase()) on the names of
\* the model; "push-all" is the only one with a dash before a letter
CamelCase(name) == IF name = "push-all" THEN "pushAll" ELSE name

\* the keys of the commands object
HandlerNames == {"repos", "file", "search", "publish", "verify", "pushAll"}

\* commands[commandKey] || commands[command]
commandHandler(c) ==
    IF c = NoArg \/ c.dashes # 0 THEN "none"
    ELSE IF CamelCase(c.name) \in HandlerNames THEN CamelCase(c.name)
    ELSE IF c.name \in HandlerNames THEN c.name
    ELSE "none"

\* a printed text: its kind and the command it is about
Text(kind, of) == [kind |-> kind, of |-> of]

\* what a call of a handler has done when it returns its promise
Prefix(texts, exit, state) == [shown |-> texts, exit |-> exit, state |-> state]

pushAllPrefix(args) ==
    IF HelpIn(args) THEN Prefix(<<Text("usage", "push-all")>>, -1, "returned")
    ELSE Prefix(<<>>, -1, "pending")

publishPrefix(im, args, key) ==
    IF args = <<>> \/ args[1] \in {Opt("help"), Short("h")}
    THEN Prefix(<<Text("usage", "publish")>>, 0, "exited")
    ELSE IF ~key THEN Prefix(<<>>, -1, "rejected")
    ELSE IF im = "modular" THEN Prefix(<<>>, -1, "pending")
    ELSE IF args[1] = Positional("event")
         THEN IF HelpIn(Tail(args))
              THEN Prefix(<<Text("usage", "publish event")>>, 0, "exited")
              ELSE Prefix(<<>>, -1, "pending")
    ELSE Prefix(<<Text("use-line", "publish")>>, 1, "exited")

reposPrefix(args) ==
    IF args # <<>> /\ args[1] = Positional("list") THEN Prefix(<<>>, -1, "pending")
    ELSE Prefix(<<Text("use-line", "repos")>>, 1, "exited")

\* no argument list of the model names a file subcommand with its arguments
filePrefix(args) == Prefix(<<Text("use-line", "file")>>, 1, "exited")

searchPrefix(args) ==
    IF args = <<>> THEN Prefix(<<Text("error", "search")>>, 1, "exited")
    ELSE Prefix(<<>>, -1, "pending")

\* no argument of the model is a file or JSON
verifyPrefix(args) ==
    IF args = <<>> THEN Prefix(<<Text("error", "verify"), Text("use-line", "verify")>>, 1, "exited")
    ELSE Prefix(<<Text("error", "verify")>>, 1, "exited")

HandlerPrefix(im, h, args, key) ==
    CASE h = "pushAll" -> pushAllPrefix(args)
      [] h = "publish" -> publishPrefix(im, args, key)
      [] h = "repos" -> reposPrefix(args)
      [] h = "file" -> filePrefix(args)
      [] h = "search" -> searchPrefix(args)
      [] h = "verify" -> verifyPrefix(args)

\* the API script from its first line to process.exit or to its last line
ScriptRun(disp, texts, exit, state, cut) ==
    [dispatched |-> disp, shown |-> texts, exit |-> exit, handler |-> state, cutOff |-> cut]

ConfigCommand(args) ==
    IF CommandArgsOf(args) = <<>> \/ CommandArgsOf(args)[1] = Positional("server")
    THEN ScriptRun("config", <<Text("config", ServerOf(args).name)>>, 0, "none", FALSE)
    ELSE ScriptRun("config", <<Text("error", "config")>>, 1, "none", FALSE)

HelpDispatch(im, args, key) ==
    LET h == commandHandler(CommandOf(args))
        r == HandlerPrefix(im, h, CommandArgsOf(args), key)
    IN IF r.exit # -1 THEN ScriptRun(h, r.shown, r.exit, "exited", FALSE)
       ELSE ScriptRun(h, r.shown, 0, r.state, r.state \in {"pending", "rejected"})

Execute(im, args, key) ==
    LET h == commandHandler(CommandOf(args))
        r == HandlerPrefix(im, h, CommandArgsOf(args), key)
    IN ScriptRun(h, r.shown, r.exit, r.state, FALSE)

ApiScript(im, args, key) ==
    IF CommandOf(args) = Positional("config") THEN ConfigCommand(args)
    ELSE IF commandHelpRequested(args) /\ commandHandler(CommandOf(args)) # "none"
         THEN HelpDispatch(im, args, key)
    ELSE IF GeneralHelp(args) \/ CommandOf(args) = NoArg
            \/ commandHandler(CommandOf(args)) = "none"
         THEN ScriptRun("none", <<Text("general", "")>>,
                        IF GeneralHelp(args) THEN 0 ELSE 1, "none", FALSE)
    ELSE Execute(im, args, key)

\* API_COMMANDS of git-wrapper.js
API_COMMANDS == {"push-all", "pushAll", "repos", "repo", "file", "search",
                 "publish", "verify", "config"}

\* the wrapper reads args[0] as the command, dashes and all
WrapperCommand(args) == IF args = <<>> THEN NoArg ELSE args[1]
IsApiCommand(c) ==
    /\ c # NoArg
    /\ c.dashes = 0
    /\ (c.name \in API_COMMANDS \/ CamelCase(c.name) \in API_COMMANDS)

\* runGitCommand: git ends with 129 on an option it does not know, such as
\* --server or --json, and with 0 or 1 on a command
GitExitCodes(c) == IF c.dashes # 0 THEN {129} ELSE {0, 1}

\* the command lines of the model
MainPrefixes == {<<>>, <<Opt("server"), ServerUrl>>, <<Opt("json")>>, <<Opt("help")>>}
MainCommands ==
    {<<>>} \cup {<<Positional(c)>> :
                   c \in {"push-all", "repos", "file", "search", "publish", "verify",
                          "config", "status"}}
MainRest ==
    { <<>>, <<Opt("help")>>, <<Short("h")>>,
      <<Positional("list")>>, <<Positional("list"), Opt("help")>>,
      <<Positional("event")>>, <<Positional("event"), Opt("help")>>,
      <<Positional("x")>>, <<Positional("x"), Short("h")>>,
      <<Positional("server")>>, <<Opt("server"), ServerUrl>> }
CommandLines ==
    {p \o c \o r : p \in MainPrefixes, c \in MainCommands, r \in MainRest}
Entries == {"api-modular", "api-legacy", "wrapper"}
ImplOf(e) == IF e = "api-modular" THEN "modular" ELSE "legacy"

InitMain ==
    /\ ResIdle
    /\ PubIdle
    /\ ErrIdle
    /\ AuthIdle
    /\ NormIdle
    /\ PushIdle
    /\ UnIdle
    /\ HookIdle
    /\ GitIdle
    /\ StoreIdle
    /\ entry \in Entries
    /\ argv \in CommandLines
    /\ envKey \in BOOLEAN
    /\ mpc = "start"
    /\ dispatched = "none"
    /\ handler = "none"
    /\ shown = <<>>
    /\ cutOff = FALSE
    /\ apiExit = -1
    /\ exitCode = -1

\* git-wrapper.js main: an API command is handed to the API script
WrapperDelegates ==
    /\ entry = "wrapper"
    /\ mpc = "start"
    /\ IsApiCommand(WrapperCommand(argv))
    /\ mpc' = "delegated"
    /\ UNCHANGED <<entry, argv, envKey, dispatched, handler, shown, cutOff,
                   apiExit, exitCode>>
    /\ UNCHANGED notMainVars

\* git-wrapper.js main: anything else is the wrapper's help or a git command
WrapperRunsGit ==
    /\ entry = "wrapper"
    /\ mpc = "start"
    /\ ~IsApiCommand(WrapperCommand(argv))
    /\ IF argv = <<>> \/ HelpIn(argv)
       THEN /\ shown' = <<Text("wrapper-help", "")>>
            /\ dispatched' = "none"
            /\ exitCode' = 0
       ELSE /\ shown' = <<>>
            /\ dispatched' = "git"
            /\ \E code \in GitExitCodes(WrapperCommand(argv)) : exitCode' = code
    /\ mpc' = "exited"
    /\ UNCHANGED <<entry, argv, envKey, handler, cutOff, apiExit>>
    /\ UNCHANGED notMainVars

\* the API script, started directly or by the wrapper
RunApiScript ==
    /\ \/ entry \in {"api-modular", "api-legacy"} /\ mpc = "start"
       \/ entry = "wrapper" /\ mpc = "delegated"
    /\ LET r == ApiScript(ImplOf(entry), argv, envKey)
       IN /\ dispatched' = r.dispatched
          /\ shown' = r.shown
          /\ handler' = r.handler
          /\ cutOff' = r.cutOff
          /\ apiExit' = r.exit
          /\ mpc' = IF r.exit = -1 THEN "running" ELSE "apiExited"
    /\ UNCHANGED <<entry, argv, envKey, exitCode>>
    /\ UNCHANGED notMainVars

\* the handler's promise settles: the rest of the handler has run, or the
\* .catch of the main script prints the error and exits with 1
HandlerSettles ==
    /\ mpc = "running"
    /\ \/ /\ handler \in {"pending", "returned"}
          /\ handler' = "returned"
          /\ shown' = IF handler = "pending"
                      THEN Append(shown, Text("result", dispatched)) ELSE shown
          /\ apiExit' = 0
       \/ /\ handler \in {"pending", "rejected"}
          /\ handler' = "rejected"
          /\ shown' = Append(shown, Text("error", dispatched))
          /\ apiExit' = 1
    /\ mpc' = "apiExited"
    /\ UNCHANGED <<entry, argv, envKey, dispatched, cutOff, exitCode>>
    /\ UNCHANGED notMainVars

\* the API script was the command, or the wrapper's 'close' handler:
\* process.exit(code || 0)
ProcessExits ==
    /\ mpc = "apiExited"
    /\ exitCode' = apiExit
    /\ mpc' = "exited"
    /\ UNCHANGED <<entry, argv, envKey, dispatched, handler, shown, cutOff, apiExit>>
    /\ UNCHANGED notMainVars

NextMain ==
    \/ WrapperDelegates
    \/ WrapperRunsGit
    \/ RunApiScript
    \/ HandlerSettles
    \/ ProcessExits

SpecMain == InitMain /\ [][NextMain]_vars

\* the usage text of command c has been printed
UsageShown(c) ==
    \E i \in DOMAIN shown :
        /\ shown[i].kind \in {"usage", "use-line"}
        /\ shown[i].of \in {c, c \o " event"}

\* the command line is <command> ... --help|-h, <command> an API command
HelpAfterCommand ==
    /\ argv # <<>>
    /\ argv[1].dashes = 0
    /\ commandHandler(argv[1]) # "none"
    /\ HelpIn(Tail(argv))

\* C18: for every API command, --help or -h after the command prints the
\* command's usage text before the process exits, and the process does not
\* exit while the command handler is still pending.
C18_HelpAfterCommandShowsUsage ==
    (mpc = "exited" /\ HelpAfterCommand) => (UsageShown(argv[1].name) /\ ~cutOff)

\* the command line is --server <url> <command> [args], <command> an API
\* command
ServerBeforeCommand ==
    /\ Len(argv) >= 3
    /\ argv[1] = Opt("server")
    /\ argv[2] = ServerUrl
    /\ argv[3].dashes = 0
    /\ commandHandler(argv[3]) # "none"

\* C19: a command line --server <url> <command> [args] dispatches
\* <command>; the url is never taken as the command.
C19_ServerOptionBeforeCommand ==
    (mpc = "exited" /\ ServerBeforeCommand) =>
        /\ dispatched = commandHandler(argv[3])
        /\ entry # "wrapper" => CommandOf(argv) # ServerUrl

(***************************************************************************)
(* The relays as publishToRelays meets them.                               *)
(***************************************************************************)
\* a relay accepts the event (OK true), rejects it (OK false), cannot be
\* connected to, or never answers
Behaviours == {"accept", "reject", "unreachable", "silent"}

\* what the promise pool.publish gives for one relay ends as: fulfilled, or
\* rejected with the relay's reason, a connection error, or the publish
\* timeout of the pool (4400 ms)
PromiseFulfils(b) == b = "accept"
RejectionMessage(b) ==
    CASE b = "reject" -> Msg("blocked: event refused", TRUE)
      [] b = "unreachable" -> Msg("connection failed", FALSE)
      [] OTHER -> Msg("publish timed out", FALSE)

\* pool.publish normalises each address first and throws on one it cannot parse
PoolCanParse(u) == u # EmptyString /\ ParseOk(AddProtocol(u))
InvalidUrl == Msg("Invalid URL", FALSE)

\* the --relay values of the model: "wss://a/", "b", and an unparsable one
RelayArgAddrs == {WssSlash("a"), Bare("b"), BadAddr}
RelayArgLists == SeqsUpTo(RelayArgAddrs, MaxRelayArgs)

\* the query results of the model inside the publish command: per kind the
\* query fails or returns one record
PublishQueryResults == {Failed} \cup {Returned(<<Event(1, tl)>>) : tl \in TagLists}

Commands == {"api", "help", "repo-announcement", "event", "issue"}
Impls == {"modular", "legacy"}
Secrets == {"absent", "malformed", "valid"}

Init ==
    /\ ResIdle
    /\ CliIdle
    /\ impl \in Impls
    /\ secret \in Secrets
    /\ command \in Commands
    /\ pc = "start"
    /\ relays = <<>>
    /\ blockedSeen = {}
    /\ handed = <<>>
    /\ beh = <<>>
    /\ settled = <<>>
    /\ success = <<>>
    /\ failed = <<>>
    /\ pool = "none"
    /\ closeFailed = FALSE
    /\ net = {}
    /\ outcome = "none"

\* getPrivateKeyFromEnv / getPrivateKeyBytes / getPublicKey: do they throw
KeyThrows(sec) == sec # "valid"

\* the relay query and the HTTP request issued before the key is decoded
CallsBeforeKeyCheck(cmd) == IF cmd = "api" THEN {"fetch"} ELSE {"query"}

\* the network calls a command issues before it has decoded the key:
\* publish calls enhanceRelayList after getPublicKey, apiRequest calls
\* fetch after createNIP98Auth
CallsBeforeKey(cmd) == {}

apiRequest ==
    /\ pc = "start"
    /\ command = "api"
    /\ IF KeyThrows(secret)
       THEN /\ net' = net \cup CallsBeforeKey(command)
            /\ outcome' = "fatal"
       ELSE /\ net' = net \cup CallsBeforeKey(command) \cup {"fetch"}
            /\ \E responseOk \in BOOLEAN :
                  outcome' = IF responseOk THEN "ok" ELSE "exit1"
    /\ pc' = "done"
    /\ UNCHANGED <<impl, secret, command, relays, blockedSeen, handed, beh, settled,
                   success, failed, pool>>
    /\ UNCHANGED closeFailed
    /\ UNCHANGED resVars
    /\ UNCHANGED cliVars

\* publish with no subcommand, --help or -h: the help text, exit 0
PublishHelp ==
    /\ pc = "start"
    /\ command = "help"
    /\ outcome' = "help"
    /\ pc' = "done"
    /\ UNCHANGED <<impl, secret, command, relays, blockedSeen, handed, beh, settled,
                   success, failed, pool, net>>
    /\ UNCHANGED closeFailed
    /\ UNCHANGED resVars
    /\ UNCHANGED cliVars

\* publish: the private key is read and decoded before anything else
PublishKey ==
    /\ pc = "start"
    /\ command \notin {"api", "help"}
    /\ IF KeyThrows(secret)
       THEN /\ outcome' = "fatal"
            /\ pc' = "done"
       ELSE /\ outcome' = outcome
            /\ pc' = "keyed"
    /\ net' = net \cup CallsBeforeKey(command)
    /\ UNCHANGED <<impl, secret, command, relays, blockedSeen, handed, beh, settled,
                   success, failed, pool>>
    /\ UNCHANGED closeFailed
    /\ UNCHANGED resVars
    /\ UNCHANGED cliVars

\* publish (modular): relays = await enhanceRelayList(baseRelays, pubkey, baseRelays)
PublishEnhance ==
    /\ pc = "keyed"
    /\ impl = "modular"
    /\ \E base \in BaseLists, q \in [Kinds -> PublishQueryResults] :
          /\ relays' = enhanceRelayList(base, q)
          /\ blockedSeen' = Range(NormalizeAll(fetchRelayLists(q).blockedRelays))
    /\ net' = net \cup {"query"}
    /\ pc' = "routed"
    /\ UNCHANGED <<impl, secret, command, handed, beh, settled, success, failed,
                   pool, outcome>>
    /\ UNCHANGED closeFailed
    /\ UNCHANGED resVars
    /\ UNCHANGED cliVars

\* publish (legacy): relays = NOSTR_RELAYS split at ',' (or the defaults)
LegacyRelays ==
    /\ pc = "keyed"
    /\ impl = "legacy"
    /\ \E base \in BaseLists : relays' = base
    /\ pc' = "routed"
    /\ UNCHANGED <<impl, secret, command, blockedSeen, handed, beh, settled, success,
                   failed, pool, net, outcome>>
    /\ UNCHANGED closeFailed
    /\ UNCHANGED resVars
    /\ UNCHANGED cliVars

\* the list a subcommand passes on, relayArgs the values of its --relay options
\*   repo-announcement: relays.push(arg) for each
\*   event: customRelays.length > 0 ? customRelays : relays
\*   the others read no --relay option
RelaysHandedOver(sub, relayList, relayArgs) ==
    CASE sub = "repo-announcement" -> relayList \o relayArgs
      [] sub = "event" -> IF Len(relayArgs) > 0 THEN relayArgs ELSE relayList
      [] OTHER -> relayList

\* the subcommand parses its options, signs the event and calls
\* publishEventCommon(event, relays, ...), which calls publishToRelays
Subcommand ==
    /\ pc = "routed"
    /\ \E relayArgs \in RelayArgLists :
          handed' = RelaysHandedOver(command, relays, relayArgs)
    /\ pc' = "handed"
    /\ UNCHANGED <<impl, secret, command, relays, blockedSeen, beh, settled, success,
                   failed, pool, net, outcome>>
    /\ UNCHANGED closeFailed
    /\ UNCHANGED resVars
    /\ UNCHANGED cliVars

(***************************************************************************)
(* publishToRelays.                                                        *)
(***************************************************************************)
Failure(relay, error) == [relay |-> relay, error |-> error]

\* modular: the loop over the settled promises, position by position
RECURSIVE SuccessFrom(_, _, _)
SuccessFrom(list, b, i) ==
    IF i > Len(list) THEN <<>>
    ELSE IF PromiseFulfils(b[i])
         THEN <<list[i]>> \o SuccessFrom(list, b, i + 1)
         ELSE SuccessFrom(list, b, i + 1)

RECURSIVE FailedFrom(_, _, _)
FailedFrom(list, b, i) ==
    IF i > Len(list) THEN <<>>
    ELSE IF PromiseFulfils(b[i])
         THEN FailedFrom(list, b, i + 1)
         ELSE <<Failure(list[i], sanitizeErrorMessage(RejectionMessage(b[i])))>>
              \o FailedFrom(list, b, i + 1)

\* modular: the catch block, every relay with the one error
FallbackFailed(list, error) ==
    [i \in DOMAIN list |-> Failure(list[i], sanitizeErrorMessage(error))]

\* legacy: what the async function of one relay returns.  pool.publish gives
\* an array of promises, so Promise.race([array, timeout]) is fulfilled with
\* that array at once; it has no .has and does not include the address
LegacyWrapper(relayUrl) ==
    IF ~PoolCanParse(relayUrl)
    THEN Failure(relayUrl, sanitizeErrorMessage(InvalidUrl))
    ELSE Failure(relayUrl, Msg("Failed to publish to relay", FALSE))

\* the result arrays, built from the settled promises
BuildSuccess(im, list, b) ==
    IF im = "modular" THEN SuccessFrom(list, b, 1) ELSE <<>>

BuildFailed(im, list, b) ==
    IF im = "modular" THEN FailedFrom(list, b, 1)
    ELSE [i \in DOMAIN list |-> LegacyWrapper(list[i])]

\* await Promise.allSettled(publishPromises): modular waits for the promises
\* of pool.publish, legacy for its wrappers, which are settled already
AllSettled(im, st) ==
    IF im = "modular" THEN \A i \in DOMAIN st : st[i] ELSE TRUE

\* publishToRelays without its empty-list guard
EarlyReturnNever(list) == FALSE

\* if (!relays || relays.length === 0) return { success: [], failed: [] }
EarlyReturn(list) == Len(list) = 0

\* how the relays of a list behave; nothing answers at an address that
\* cannot be parsed
RelayBehaviours(list) ==
    {b \in [DOMAIN list -> Behaviours] :
        \A i \in DOMAIN list : ~PoolCanParse(list[i]) => b[i] = "unreachable"}

\* a catch block that returns the result itself, with no finally after it
ReturnFromCatch(error) == "returned"

\* try { ... } catch (error) { ... } finally { close }: where publishToRelays
\* goes after its catch block
AfterCatch(error) == "closing"

\* the guards, new SimplePool(), and pool.publish; when pool.publish throws
\* no promise exists, so no attempt is pending
PublishCall ==
    /\ pc = "handed"
    /\ blockedSeen' = {}
    /\ IF KeyThrows(secret)
       THEN /\ pc' = "threw"
            /\ UNCHANGED <<beh, settled, success, failed, pool, net>>
       ELSE IF EarlyReturn(handed)
       THEN /\ pc' = "returned"
            /\ success' = <<>>
            /\ failed' = <<>>
            /\ UNCHANGED <<beh, settled, pool, net>>
       ELSE /\ pool' = "open"
            /\ beh' \in RelayBehaviours(handed)
            /\ IF impl = "modular" /\ \E i \in DOMAIN handed : ~PoolCanParse(handed[i])
               THEN /\ settled' = [i \in DOMAIN handed |-> TRUE]
                    /\ success' = <<>>
                    /\ failed' = FallbackFailed(handed, InvalidUrl)
                    /\ net' = net
                    /\ pc' = AfterCatch(InvalidUrl)
               ELSE /\ settled' = [i \in DOMAIN handed |-> FALSE]
                    /\ success' = <<>>
                    /\ failed' = <<>>
                    /\ net' = IF \E i \in DOMAIN handed : PoolCanParse(handed[i])
                              THEN net \cup {"publish"} ELSE net
                    /\ pc' = "inflight"
    /\ UNCHANGED <<impl, secret, command, relays, handed, outcome>>
    /\ UNCHANGED closeFailed
    /\ UNCHANGED resVars
    /\ UNCHANGED cliVars

\* a relay answers OK true / OK false, or the connection fails
RelaySettles(i) ==
    /\ pc = "inflight"
    /\ impl = "modular"
    /\ ~settled[i]
    /\ beh[i] # "silent"
    /\ settled' = [settled EXCEPT ![i] = TRUE]
    /\ UNCHANGED <<impl, secret, command, pc, relays, blockedSeen, handed, beh,
                   success, failed, pool, net, outcome>>
    /\ UNCHANGED closeFailed
    /\ UNCHANGED resVars
    /\ UNCHANGED cliVars

\* no answer: the publish timeout of the pool rejects the promise
RelayTimesOut(i) ==
    /\ pc = "inflight"
    /\ impl = "modular"
    /\ ~settled[i]
    /\ beh[i] = "silent"
    /\ settled' = [settled EXCEPT ![i] = TRUE]
    /\ UNCHANGED <<impl, secret, command, pc, relays, blockedSeen, handed, beh,
                   success, failed, pool, net, outcome>>
    /\ UNCHANGED closeFailed
    /\ UNCHANGED resVars
    /\ UNCHANGED cliVars

\* after await Promise.allSettled(...): the loop that fills success and failed
Aggregate ==
    /\ pc = "inflight"
    /\ AllSettled(impl, settled)
    /\ success' = BuildSuccess(impl, handed, beh)
    /\ failed' = BuildFailed(impl, handed, beh)
    /\ pc' = "closing"
    /\ UNCHANGED <<impl, secret, command, relays, blockedSeen, handed, beh, settled,
                   pool, net, outcome>>
    /\ UNCHANGED closeFailed
    /\ UNCHANGED resVars
    /\ UNCHANGED cliVars

\* try { await pool.close(relays) } catch {}; return { success, failed }
ClosePool ==
    /\ pc = "closing"
    /\ \E closeThrows \in BOOLEAN :
          /\ closeFailed' = closeThrows
          /\ pc' = IF CloseEscapes(closeThrows) THEN "threw" ELSE "returned"
    /\ pool' = "closed"
    /\ UNCHANGED <<impl, secret, command, relays, blockedSeen, handed, beh, settled,
                   success, failed, net, outcome>>
    /\ UNCHANGED resVars
    /\ UNCHANGED cliVars

\* the caller prints the result; publish event exits 1 when every relay failed
Report ==
    /\ pc \in {"returned", "threw"}
    /\ outcome' = IF pc = "threw" THEN "exit1"
                  ELSE IF command = "event" /\ Len(success) = 0 /\ Len(failed) > 0
                       THEN "exit1" ELSE "ok"
    /\ pc' = "done"
    /\ UNCHANGED <<impl, secret, command, relays, blockedSeen, handed, beh, settled,
                   success, failed, pool, net>>
    /\ UNCHANGED closeFailed
    /\ UNCHANGED resVars
    /\ UNCHANGED cliVars

Next ==
    \/ apiRequest
    \/ PublishHelp
    \/ PublishKey
    \/ PublishEnhance
    \/ LegacyRelays
    \/ Subcommand
    \/ PublishCall
    \/ \E i \in DOMAIN settled : RelaySettles(i)
    \/ \E i \in DOMAIN settled : RelayTimesOut(i)
    \/ Aggregate
    \/ ClosePool
    \/ Report

Spec == Init /\ [][Next]_vars

\* one run of the program: a publish command, or enhanceRelayList on its own
InitPools == Init \/ InitResolve
NextPools == Next \/ NextResolve
SpecPools == InitPools /\ [][NextPools]_vars

(***************************************************************************)
(* Properties of publishToRelays and of the publish command.               *)
(***************************************************************************)
\* publishToRelays has returned its result to the subcommand
PublishReturned == pc \in {"returned", "done"} /\ pool # "none"

Occurrences(s, x) == Cardinality({i \in DOMAIN s : s[i] = x})
FailedRelays == [i \in DOMAIN failed |-> failed[i].relay]
ErrorsOf(relay) == {failed[i].error : i \in {j \in DOMAIN failed : failed[j].relay = relay}}

TimeoutTexts == {"publish timed out", "Publish timeout - relay did not respond"}

\* C1: after publishToRelays returns for a non-empty relay list, every relay
\* of the list appears exactly once in exactly one of success and failed,
\* and |success| + |failed| = |relays|.
C1_EveryRelayExactlyOnce ==
    PublishReturned =>
        /\ Len(success) + Len(failed) = Len(handed)
        /\ \A r \in Range(handed) :
              Occurrences(success, r) + Occurrences(FailedRelays, r) = 1

\* C2: the result is built only after every per-target attempt has settled,
\* and the entry of a target is the one it gets when it is published to
\* alone: no other target's failure or delay changes it.
C2_BarrierAndIndependence ==
    (pc \in {"closing", "returned", "done"} /\ pool # "none") =>
        /\ \A i \in DOMAIN handed : settled[i]
        /\ \A i \in DOMAIN handed :
              /\ handed[i] \in Range(success)
                    <=> BuildSuccess(impl, <<handed[i]>>, <<beh[i]>>) # <<>>
              /\ \A f \in Range(BuildFailed(impl, <<handed[i]>>, <<beh[i]>>)) :
                    f \in Range(failed)

\* C3: with a private key supplied, publishToRelays never throws because of
\* a relay: rejection, connection failure, timeout and a failing close all
\* end in a normal return, each such relay being an entry of failed.
C3_NeverThrowsForRelays ==
    /\ secret = "valid" => pc # "threw"
    /\ PublishReturned =>
          \A i \in DOMAIN handed :
              (beh[i] # "accept" \/ ~PoolCanParse(handed[i]))
                  => handed[i] \in Range(FailedRelays)

C3_Witness ==
    /\ pc = "returned"
    /\ closeFailed
    /\ {"reject", "unreachable", "silent"} \subseteq Range(beh)
    /\ Len(failed) >= 3

\* C4: a target that never acknowledges is, once its timeout has elapsed,
\* recorded in failed with a timeout reason and not in success.
C4_SilentRelayTimesOut ==
    PublishReturned =>
        \A i \in DOMAIN handed :
            beh[i] = "silent" =>
                /\ handed[i] \notin Range(success)
                /\ \E e \in ErrorsOf(handed[i]) : e.text \in TimeoutTexts

\* C5: a target that acknowledges the event is recorded in success and not
\* in failed; one accepting, one silent and one rejecting target give one
\* success and two failures with different reasons.
C5_AcceptingRelaySucceeds ==
    PublishReturned =>
        /\ \A i \in DOMAIN handed :
              beh[i] = "accept" =>
                  /\ handed[i] \in Range(success)
                  /\ handed[i] \notin Range(FailedRelays)
        /\ (Len(handed) = 3 /\ Range(beh) = {"accept", "silent", "reject"}) =>
              /\ Len(success) = 1
              /\ Len(failed) = 2
              /\ failed[1].error # failed[2].error

\* C6: publishToRelays called with an empty relay list returns
\* {success: [], failed: []} without opening a pool or a network call.
C6_EmptyListNoNetwork ==
    (pc = "returned" /\ handed = <<>>) =>
        /\ success = <<>>
        /\ failed = <<>>
        /\ pool = "none"
        /\ "publish" \notin net

C6_Witness ==
    /\ pc = "returned"
    /\ handed = <<>>
    /\ command = "event"
    /\ secret = "valid"

\* C7: with the identity secret absent or malformed, the publish command and
\* an authenticated API request end in a fatal error and no network call is
\* ever issued (publish with only --help prints the help instead).
C7_NoNetworkWithoutIdentity ==
    secret # "valid" =>
        /\ net = {}
        /\ pool = "none"
        /\ (pc = "done" /\ command # "help") => outcome = "fatal"

C7_Witness ==
    /\ secret \in {"absent", "malformed"}
    /\ command \in {"api", "event"}
    /\ pc = "done"
    /\ outcome = "fatal"

\* C9: for every publish subcommand and every combination of its options the
\* list handed to publishToRelays is the list enhanceRelayList produced: no
\* blocked relay, no duplicate, every address canonical.
C9_HandedListIsEnhanced ==
    pc = "handed" =>
        /\ handed = relays
        /\ \A i \in DOMAIN handed :
              /\ normalizeRelayUrl(handed[i]) = handed[i]
              /\ handed[i] \notin blockedSeen
              /\ \A j \in DOMAIN handed : handed[j] = handed[i] => j = i

====
